---- MODULE Spec2Model ----
(***************************************************************************)
(* A model of duo-talk-director: the static check suite, the LLM scorer    *)
(* and threshold policy, the three Directors (minimal, LLM, hybrid) and    *)
(* the RAG fact store.                                                     *)
(*                                                                         *)
(* Text.  A Python str is a sequence of characters; each character is a    *)
(* TLA+ string.  ASCII characters stand for themselves ("T", ":", " ",     *)
(* "\n").  A Japanese character is written by a romanised name of two or   *)
(* more letters: hiragana in lower case ("de", "su", "_a" for a lone       *)
(* vowel), katakana capitalised ("Gu", "Ra", "Su"), kanji in upper case    *)
(* ("ANE", "SAMA"), punctuation in angle brackets ("<.>" for the           *)
(* ideographic full stop, "<[>" "<]>" for the corner quotes).  len(s) is   *)
(* Len(s), s + t is s \o t and `p in s` is Contains(s, p).                 *)
(*                                                                         *)
(* Numbers.  A float score in [0,1] is an integer number of 1/10000ths     *)
(* (UNIT is 1.0); the inputs are multiples of 0.01.  A float sum carries   *)
(* a rounding error, which one unit stands for (RoundingErrors).           *)
(***************************************************************************)
EXTENDS Integers, Sequences, FiniteSets, TLC

VARIABLES
    op,                     \* the operation the last step performed
    arg,                    \* its arguments
    ret,                    \* what it returned
    options,                \* the constructor arguments the Director keeps
    llm_calls,              \* the calls the last operation made of the LLM strategy
    scene_context,          \* SessionRAG._scene_context (a SceneContext, or NoneRecord)
    blocked_props,          \* SessionRAG._blocked_props
    recent_topics,          \* SessionRAG._recent_topics
    seen_facts,             \* RAGManager._seen_facts: speaker -> set of fact ids
    current_triggers,       \* RAGManager._current_triggers
    rag_attempts,           \* DirectorHybrid._rag_attempts
    last_injection_decision,\* DirectorHybrid._last_injection_decision
    dedupe_enabled,         \* RAGManager._dedupe_enabled
    enabled,                \* RAGManager._enabled
    llm_history,            \* DirectorLLM._history
    shown,                  \* history: the facts the session has given each speaker
    steps                   \* history: the operations performed so far

vars == <<op, arg, ret, options, llm_calls, scene_context, blocked_props, recent_topics,
          seen_facts, current_triggers, rag_attempts, last_injection_decision,
          dedupe_enabled, enabled, llm_history, shown, steps>>

None == <<"None">>

-----------------------------------------------------------------------------
(* Python str and list helpers                                             *)


\* s[i:j] with 0-based, end-exclusive Python indices (0 <= i, j <= len(s))
Slice(s, i, j) == SubSeq(s, i + 1, j)

\* s[i:]
From(s, i) == SubSeq(s, i + 1, Len(s))

\* s.startswith(p) at offset i (0-based)
StartsAt(s, i, p) == /\ i + Len(p) <= Len(s)
                     /\ \A k \in 1..Len(p) : s[i + k] = p[k]

\* p in s
Contains(s, p) == \E i \in 0..(Len(s) - Len(p)) : StartsAt(s, i, p)

\* any(p in s for p in ps), ps a list
ContainsAny(s, ps) == \E k \in 1..Len(ps) : Contains(s, ps[k])

\* the elements of a list, as a set
Elems(xs) == {xs[k] : k \in 1..Len(xs)}

\* sep.join(xs)
RECURSIVE Join(_, _)
Join(sep, xs) ==
    IF xs = <<>> THEN <<>>
    ELSE IF Len(xs) = 1 THEN xs[1]
    ELSE xs[1] \o sep \o Join(sep, Tail(xs))

\* s.count(c) for a single character c
RECURSIVE Count(_, _)
Count(s, c) ==
    IF s = <<>> THEN 0
    ELSE (IF Head(s) = c THEN 1 ELSE 0) + Count(Tail(s), c)

\* \s of the re module and the characters str.strip() removes
Whitespace == {" ", "\n", "\t", "<sp>"}

\* the number of leading whitespace characters of s from offset i
RECURSIVE WsRun(_, _)
WsRun(s, i) ==
    IF i < Len(s) /\ s[i + 1] \in Whitespace THEN 1 + WsRun(s, i + 1) ELSE 0

RECURSIVE LStrip(_)
LStrip(s) == IF s # <<>> /\ Head(s) \in Whitespace THEN LStrip(Tail(s)) ELSE s

RECURSIVE RStrip(_)
RStrip(s) ==
    IF s # <<>> /\ s[Len(s)] \in Whitespace THEN RStrip(SubSeq(s, 1, Len(s) - 1)) ELSE s

\* s.strip()
Strip(s) == RStrip(LStrip(s))

\* re.split on a set of separator characters: the list of pieces
RECURSIVE SplitAnyAcc(_, _, _)
SplitAnyAcc(s, seps, cur) ==
    IF s = <<>> THEN <<cur>>
    ELSE IF Head(s) \in seps THEN <<cur>> \o SplitAnyAcc(Tail(s), seps, <<>>)
    ELSE SplitAnyAcc(Tail(s), seps, Append(cur, Head(s)))

\* s.split(c) for a single character c
Split(s, c) == SplitAnyAcc(s, {c}, <<>>)

\* c.lower() for the ASCII letters the markers and the props use
LowerChar(c) ==
    CASE c = "T" -> "t"
      [] c = "H" -> "h"
      [] c = "O" -> "o"
      [] c = "U" -> "u"
      [] c = "G" -> "g"
      [] c = "P" -> "p"
      [] c = "C" -> "c"
      [] OTHER -> c

\* s.lower()
Lower(s) == [i \in 1..Len(s) |-> LowerChar(s[i])]

-----------------------------------------------------------------------------
(* interfaces.py: DirectorStatus, LLMEvaluationScore; config/thresholds.py *)

PASS == "PASS"
WARN == "WARN"
RETRY == "RETRY"
MODIFY == "MODIFY"
DirectorStatus == {PASS, WARN, RETRY, MODIFY}

\* 1.0 in the integer representation of floats
UNIT == 10000

\* the rounding error of a float sum: the computed weighted average may fall
\* just below or just above the exact value (0.39999999999999997 for 0.4); one
\* unit stands for it, less than any difference between exact values
RoundingErrors == {-1, 0, 1}

\* the weighted average of LLMEvaluationScore.__post_init__, err its rounding error
WeightedAverage(c, t, r, n, k, err) ==
    (c * 25 + t * 20 + r * 25 + n * 15 + k * 15) \div 100 + err

\* a variant with the novelty and relationship weights exchanged
LLMEvaluationScore_swapped(c, t, r, n, k, overall, issues, err) ==
    [character_consistency |-> c, topic_novelty |-> t, relationship_quality |-> r,
     naturalness |-> n, concreteness |-> k,
     overall_score |-> IF overall = 0
                       THEN (c * 25 + t * 25 + r * 20 + n * 15 + k * 15) \div 100 + err
                       ELSE overall,
     issues |-> issues]

\* LLMEvaluationScore(...) with __post_init__: an overall_score of 0.0 (the
\* default) is replaced by the weighted average
LLMEvaluationScore(c, t, r, n, k, overall, issues, err) ==
    [character_consistency |-> c, topic_novelty |-> t, relationship_quality |-> r,
     naturalness |-> n, concreteness |-> k,
     overall_score |-> IF overall = 0 THEN WeightedAverage(c, t, r, n, k, err) ELSE overall,
     issues |-> issues]

\* ThresholdConfig()
DefaultThresholdConfig ==
    [retry_overall |-> 4000, retry_character |-> 3000,
     retry_relationship |-> 3000, warn_overall |-> 6000]

\* a variant: the overall gates tested before the two floors
determine_status_overall_first(score, config) ==
    IF score.overall_score < config.retry_overall THEN RETRY
    ELSE IF score.overall_score < config.warn_overall THEN WARN
    ELSE IF score.character_consistency < config.retry_character THEN RETRY
    ELSE IF score.relationship_quality < config.retry_relationship THEN RETRY
    ELSE PASS

\* a variant: the thresholds inclusive
determine_status_inclusive(score, config) ==
    IF score.character_consistency <= config.retry_character THEN RETRY
    ELSE IF score.relationship_quality <= config.retry_relationship THEN RETRY
    ELSE IF score.overall_score <= config.retry_overall THEN RETRY
    ELSE IF score.overall_score <= config.warn_overall THEN WARN
    ELSE PASS

determine_status(score, config) ==
    IF score.character_consistency < config.retry_character THEN RETRY
    ELSE IF score.relationship_quality < config.retry_relationship THEN RETRY
    ELSE IF score.overall_score < config.retry_overall THEN RETRY
    ELSE IF score.overall_score < config.warn_overall THEN WARN
    ELSE PASS

-----------------------------------------------------------------------------
(* checks/thought_check.py                                                 *)

\* CheckResult(name, passed, status, reason, details["suggestion"]); a reason
\* or suggestion is a list of text pieces (None for no suggestion)
CheckResult(name, passed, status, reason, suggestion) ==
    [name |-> name, passed |-> passed, status |-> status,
     reason |-> reason, suggestion |-> suggestion]

AsciiLetters ==
    {"a", "b", "c", "d", "e", "f", "g", "h", "i", "j", "k", "l", "m",
     "n", "o", "p", "q", "r", "s", "t", "u", "v", "w", "x", "y", "z",
     "A", "B", "C", "D", "E", "F", "G", "H", "I", "J", "K", "L", "M",
     "N", "O", "P", "Q", "R", "S", "T", "U", "V", "W", "X", "Y", "Z"}

\* [A-Za-zやなあゆ]
SpeakerPrefixChars == AsciiLetters \cup {"ya", "na", "_a", "yu"}

\* [A-Za-zやなあゆ姉妹様]
CleanPrefixChars == SpeakerPrefixChars \cup {"ANE", "IMOUTO", "SAMA"}

\* the number of characters of `chars` that s holds from offset i on
RECURSIVE CharRun(_, _, _)
CharRun(s, i, chars) ==
    IF i < Len(s) /\ s[i + 1] \in chars THEN 1 + CharRun(s, i + 1, chars) ELSE 0

\* whether the whitespace run of s from offset i holds a newline
WsRunHasNewline(s, i) == \E j \in i..(i + WsRun(s, i) - 1) : s[j + 1] = "\n"

\* "thought:" and "output:", matched against the lower-cased text (re.IGNORECASE)
THOUGHT_MARK == <<"t", "h", "o", "u", "g", "h", "t", ":">>
OUTPUT_MARK == <<"o", "u", "t", "p", "u", "t", ":">>

\* the offsets just after each "Thought:" of the response
ThoughtEnds(response) ==
    {i + Len(THOUGHT_MARK) : i \in {j \in 0..(Len(response) - Len(THOUGHT_MARK)) :
                                      StartsAt(Lower(response), j, THOUGHT_MARK)}}

\* EMPTY_PATTERNS, matched just after a marker that ends at offset a:
\*   Thought:\s*\(?\s*\n   Thought:\s*$   Thought:\s*\(\s*\n
EmptyPatternAt(s, a) ==
    LET b == a + WsRun(s, a)
    IN  \/ WsRunHasNewline(s, a)
        \/ b < Len(s) /\ s[b + 1] = "(" /\ WsRunHasNewline(s, b + 1)
        \/ b = Len(s)

\* TRUNCATED_PATTERNS: Thought:\s*\([A-Za-zやなあゆ]+:\s*\n and ...:\s*$
TruncatedPatternAt(s, a) ==
    LET b == a + WsRun(s, a)
        n == CharRun(s, b + 1, SpeakerPrefixChars)
        c == b + 1 + n
    IN  /\ b < Len(s) /\ s[b + 1] = "("
        /\ n >= 1
        /\ c < Len(s) /\ s[c + 1] = ":"
        /\ \/ WsRunHasNewline(s, c + 1)
           \/ c + 1 + WsRun(s, c + 1) = Len(s)

\* the lookahead (?=\nOutput:|$) at offset j: $ is the end of the text or the
\* place before its final newline
ThoughtLookahead(s, j) ==
    \/ j = Len(s)
    \/ j = Len(s) - 1 /\ s[Len(s)] = "\n"
    \/ StartsAt(Lower(s), j, <<"\n">> \o OUTPUT_MARK)

\* THOUGHT_PATTERN = Thought:\s*(.+?)(?=\nOutput:|$) after a marker that ends
\* at offset a (a < len): group(1), or None.  \s* is greedy and gives a
\* character back only when nothing else is left for .+?
ThoughtGroupAt(s, a) ==
    IF a >= Len(s) THEN None
    ELSE LET b == a + WsRun(s, a)
             start == IF b < Len(s) THEN b ELSE Len(s) - 1
             stop == CHOOSE j \in (start + 1)..Len(s) :
                        /\ ThoughtLookahead(s, j)
                        /\ \A k \in (start + 1)..(j - 1) : ~ThoughtLookahead(s, k)
         IN  Slice(s, start, stop)

\* THOUGHT_PATTERN.search(response): group(1) of the leftmost match, or None
ThoughtSearch(response) ==
    LET ends == {a \in ThoughtEnds(response) : ThoughtGroupAt(response, a) # None}
    IN  IF ends = {} THEN None
        ELSE ThoughtGroupAt(response, CHOOSE a \in ends : \A b \in ends : a <= b)

\* re.sub(r"^\s*\([A-Za-zやなあゆ姉妹様]+:\s*", "", cleaned)
strip_speaker_prefix(cleaned) ==
    LET n == CharRun(cleaned, 1, CleanPrefixChars)
    IN  IF /\ cleaned # <<>> /\ cleaned[1] = "("
           /\ n >= 1
           /\ n + 1 < Len(cleaned) /\ cleaned[n + 2] = ":"
        THEN From(cleaned, n + 2 + WsRun(cleaned, n + 2))
        ELSE cleaned

\* the parentheses around the content go, or the opening one alone
strip_parentheses(cleaned) ==
    IF cleaned # <<>> /\ cleaned[1] = "(" /\ cleaned[Len(cleaned)] = ")"
    THEN Slice(cleaned, 1, Len(cleaned) - 1)
    ELSE IF cleaned # <<>> /\ cleaned[1] = "(" THEN From(cleaned, 1)
    ELSE cleaned

\* re.sub(r"\)\s*$", "", cleaned); stripped is cleaned without its
\* trailing whitespace
strip_closing(cleaned, stripped) ==
    IF stripped # <<>> /\ stripped[Len(stripped)] = ")"
    THEN SubSeq(stripped, 1, Len(stripped) - 1)
    ELSE cleaned

strip_closing_parenthesis(cleaned) == strip_closing(cleaned, RStrip(cleaned))

\* ThoughtChecker._clean_thought_content
clean_thought_content(content) ==
    Strip(strip_closing_parenthesis(strip_parentheses(strip_speaker_prefix(Strip(content)))))

\* ThoughtChecker._is_truncated
is_truncated(content) ==
    LET n == CharRun(content, 1, SpeakerPrefixChars)
        rest == From(content, n + 2)
    IN  \* re.match(r"^\s*\([A-Za-zやなあゆ]+:\s*[^)]{0,5}$", content), content stripped
        \/ /\ content # <<>> /\ content[1] = "("
           /\ n >= 1
           /\ n + 1 < Len(content) /\ content[n + 2] = ":"
           /\ Count(rest, ")") = 0
           /\ Len(rest) - WsRun(rest, 0) <= 5
        \/ /\ Count(content, "(") > Count(content, ")")
           /\ Len(content) < 20

\* the contents a cleaned Thought may have and still count as empty
EmptyThoughts == {<<"<...>">>, <<".", ".", ".">>, <<"<.>">>, <<"<,>">>}

ThoughtValidation(has_thought, has_output, thought_content, is_empty, trunc) ==
    [has_thought |-> has_thought, has_output |-> has_output,
     thought_content |-> thought_content, is_empty |-> is_empty,
     is_truncated |-> trunc]

\* _validate_thought on a Thought with content: empty when nothing but the
\* wrapping is left of it, truncated when not empty and cut short
validate_content(has_output, thought_content, cleaned) ==
    LET empty == Len(cleaned) <= 1 \/ cleaned \in EmptyThoughts
    IN  ThoughtValidation(TRUE, has_output, thought_content, empty,
                          ~empty /\ is_truncated(thought_content))

validate_stripped(has_output, thought_content) ==
    validate_content(has_output, thought_content, clean_thought_content(thought_content))

\* _validate_thought after THOUGHT_PATTERN.search(response)
validate_group(has_output, group) ==
    IF group = None
    THEN ThoughtValidation(TRUE, has_output, <<>>, TRUE, FALSE)
    ELSE validate_stripped(has_output, Strip(group))

\* ThoughtChecker._validate_thought
validate_thought(response) ==
    IF \E a \in ThoughtEnds(response) : EmptyPatternAt(response, a)
    THEN ThoughtValidation(TRUE, FALSE, <<>>, TRUE, FALSE)
    ELSE IF \E a \in ThoughtEnds(response) : TruncatedPatternAt(response, a)
    THEN ThoughtValidation(TRUE, FALSE, <<>>, TRUE, FALSE)
    ELSE IF ~Contains(Lower(response), THOUGHT_MARK)
    THEN ThoughtValidation(FALSE, FALSE, <<>>, TRUE, FALSE)
    ELSE validate_group(Contains(Lower(response), OUTPUT_MARK), ThoughtSearch(response))

\* ThoughtChecker(min_thought_length=3)
min_thought_length == 3

\* ThoughtChecker.check, on what _validate_thought found
thought_check_result(v) ==
        IF ~v.has_thought
        THEN CheckResult("thought_check", FALSE, RETRY,
                         <<"thought: missing">>, <<"suggest: write a Thought">>)
        ELSE IF v.is_empty
        THEN CheckResult("thought_check", FALSE, RETRY,
                         <<"thought: empty">>, <<"suggest: write a Thought">>)
        ELSE IF v.is_truncated
        THEN CheckResult("thought_check", FALSE, RETRY,
                         <<"thought: truncated">>, <<"suggest: end the Thought">>)
        ELSE IF ~v.has_output
        THEN CheckResult("thought_check", FALSE, RETRY,
                         <<"thought: missing output">>, <<"suggest: write an Output">>)
        ELSE IF Len(Strip(v.thought_content)) < min_thought_length
        THEN CheckResult("thought_check", TRUE, WARN, <<"thought: too short">>, None)
        ELSE CheckResult("thought_check", TRUE, PASS, <<"OK">>, None)

\* ThoughtChecker.check
ThoughtChecker_check(response) == thought_check_result(validate_thought(response))

\* ございます 致します です ます
YANA_FORBIDDEN_ENDINGS ==
    <<
       <<"go", "za", "_i", "ma", "su">>,
       <<"ITA", "shi", "ma", "su">>,
       <<"de", "su">>,
       <<"ma", "su">> >>

\* 姉様
YANA_FORBIDDEN_WORDS ==
    <<
       <<"ANE", "SAMA">> >>

\* (empty)
YANA_FORBIDDEN_SLANG == <<>>

\* だね だよ じゃん でしょ
AYU_FORBIDDEN_ENDINGS ==
    <<
       <<"da", "ne">>,
       <<"da", "yo">>,
       <<"ji", "xya", "nn">>,
       <<"de", "shi", "xyo">> >>

\* 姉上 お姉ちゃん やなちゃん
AYU_FORBIDDEN_WORDS ==
    <<
       <<"ANE", "UE">>,
       <<"_o", "ANE", "chi", "xya", "nn">>,
       <<"ya", "na", "chi", "xya", "nn">> >>

\* マジ ヤバい うける
AYU_FORBIDDEN_SLANG ==
    <<
       <<"Ma", "Ji">>,
       <<"Ya", "Ba", "_i">>,
       <<"_u", "ke", "ru">> >>

\* いい観点 いい質問 さすが 鋭い おっしゃる通り その通り 素晴らしい お見事 よく気づ 正解です 大正解 正解 すごい 完璧 天才
PRAISE_WORDS_FOR_AYU ==
    <<
       <<"_i", "_i", "VIEW", "POINT">>,
       <<"_i", "_i", "QUALITY", "MON">>,
       <<"sa", "su", "ga">>,
       <<"SURUDO", "_i">>,
       <<"_o", "xtsu", "shi", "xya", "ru", "TOORI", "ri">>,
       <<"so", "no", "TOORI", "ri">>,
       <<"MOTO", "HARE", "ra", "shi", "_i">>,
       <<"_o", "MIRU", "KOTO">>,
       <<"yo", "ku", "KIBUN", "dzu">>,
       <<"SEI", "SOLVE", "de", "su">>,
       <<"DAI", "SEI", "SOLVE">>,
       <<"SEI", "SOLVE">>,
       <<"su", "go", "_i">>,
       <<"KAN", "PEKI">>,
       <<"TEN", "SAI">> >>

\* あなた きみ ユーザー その答え その考え その意見 発言 回答
RECIPIENT_TOKENS ==
    <<
       <<"_a", "na", "ta">>,
       <<"ki", "mi">>,
       <<"Yu", "--", "Za", "--">>,
       <<"so", "no", "KOTAE", "_e">>,
       <<"so", "no", "KANGAE", "_e">>,
       <<"so", "no", "MIND", "MIRU">>,
       <<"HATSU", "GEN">>,
       <<"KAI", "KOTAE">> >>

\* 姉様のお家 姉様の家 姉様の実家 あゆのお家 あゆの家 あゆの実家 やなのお家 やなの家 やなの実家 姉の家 妹の家 姉の実家 妹の実家 また来てね また遊びに来て お邪魔しました 実家では 実家に 実家の うちの実家
SEPARATION_WORDS ==
    <<
       <<"ANE", "SAMA", "no", "_o", "IE">>,
       <<"ANE", "SAMA", "no", "IE">>,
       <<"ANE", "SAMA", "no", "JITSU", "IE">>,
       <<"_a", "yu", "no", "_o", "IE">>,
       <<"_a", "yu", "no", "IE">>,
       <<"_a", "yu", "no", "JITSU", "IE">>,
       <<"ya", "na", "no", "_o", "IE">>,
       <<"ya", "na", "no", "IE">>,
       <<"ya", "na", "no", "JITSU", "IE">>,
       <<"ANE", "no", "IE">>,
       <<"IMOUTO", "no", "IE">>,
       <<"ANE", "no", "JITSU", "IE">>,
       <<"IMOUTO", "no", "JITSU", "IE">>,
       <<"ma", "ta", "KURU", "te", "ne">>,
       <<"ma", "ta", "ASO", "bi", "ni", "KURU", "te">>,
       <<"_o", "JA", "DEMON", "shi", "ma", "shi", "ta">>,
       <<"JITSU", "IE", "de", "ha">>,
       <<"JITSU", "IE", "ni">>,
       <<"JITSU", "IE", "no">>,
       <<"_u", "chi", "no", "JITSU", "IE">> >>

\* 毒舌 厳しい 辛辣 きつい 手厳しい
TOXICITY_REACTION_TRIGGERS ==
    <<
       <<"DOKU", "ZETSU">>,
       <<"KIBI", "shi", "_i">>,
       <<"SHIN", "RATSU">>,
       <<"ki", "tsu", "_i">>,
       <<"HAND", "KIBI", "shi", "_i">> >>

\* 無駄 コスト ダメ 無理 非効率 リスク 問題 危険 失敗 間違い 正気 呆れ ため息
TOXIC_KEYWORDS ==
    <<
       <<"NASHI", "DAA">>,
       <<"Ko", "Su", "To">>,
       <<"Da", "Me">>,
       <<"NASHI", "LOGIC">>,
       <<"NON", "KOU", "RITSU">>,
       <<"Ri", "Su", "Ku">>,
       <<"MON", "TOPIC">>,
       <<"ABU", "KEN">>,
       <<"SHITSU", "HAI">>,
       <<"AIDA", "CHIGA", "_i">>,
       <<"SEI", "KIBUN">>,
       <<"AKI", "re">>,
       <<"ta", "me", "IKI">> >>

-----------------------------------------------------------------------------
(* checks/tone_check.py, praise_check.py, context_check.py,                *)
(* setting_check.py, format_check.py                                       *)

\* speaker names: やな, あゆ and the legacy names of the two
YANA == <<"ya", "na">>
AYU == <<"_a", "yu">>
LEGACY_A == <<"A">>
LEGACY_B == <<"B">>

\* [p.strip() for p in pieces if p.strip()]
StrippedNonBlank(pieces) ==
    LET stripped == [i \in 1..Len(pieces) |-> Strip(pieces[i])]
    IN  SelectSeq(stripped, LAMBDA p : p # <<>>)

\* the least index of xs whose element passes Test, 0 when there is none
FirstIndex(xs, Test(_)) ==
    IF \E k \in 1..Len(xs) : Test(xs[k])
    THEN CHOOSE k \in 1..Len(xs) : Test(xs[k]) /\ \A j \in 1..(k - 1) : ~Test(xs[j])
    ELSE 0

\* re.sub(r"[opens][^closes]*[closes]", "", s): drop every span from an
\* opening character to the next closing one
RECURSIVE RemoveSpans(_, _, _)
RemoveSpans(s, opens, closes) ==
    IF s = <<>> THEN <<>>
    ELSE IF Head(s) \in opens /\ \E j \in 2..Len(s) : s[j] \in closes
    THEN LET j == CHOOSE j \in 2..Len(s) :
                     s[j] \in closes /\ \A k \in 2..(j - 1) : s[k] \notin closes
         IN  RemoveSpans(SubSeq(s, j + 1, Len(s)), opens, closes)
    ELSE <<Head(s)>> \o RemoveSpans(Tail(s), opens, closes)

\* re.sub(r"([chars])\1+", r"\1", s): one character for each run of the same one
RECURSIVE CollapseRepeats(_, _, _)
CollapseRepeats(s, prev, chars) ==
    IF s = <<>> THEN <<>>
    ELSE IF Head(s) = prev /\ Head(s) \in chars THEN CollapseRepeats(Tail(s), prev, chars)
    ELSE <<Head(s)>> \o CollapseRepeats(Tail(s), Head(s), chars)

\* re.sub(r"\s+", " ", s)
RECURSIVE CollapseWhitespace(_, _)
CollapseWhitespace(s, inRun) ==
    IF s = <<>> THEN <<>>
    ELSE IF Head(s) \in Whitespace
    THEN (IF inRun THEN <<>> ELSE <<" ">>) \o CollapseWhitespace(Tail(s), TRUE)
    ELSE <<Head(s)>> \o CollapseWhitespace(Tail(s), FALSE)

QuoteChars == {"<[>", "<[[>", "<]>", "<]]>"}
RepeatChars == {"<!>", "<?>", "!", "?", "."}

\* the last three steps that both normalisations share: ｡ to 。, repeated
\* punctuation to one, whitespace runs to one space, strip
NormalizeTail(s) ==
    LET a == [i \in 1..Len(s) |-> IF s[i] = "<h.>" THEN "<.>" ELSE s[i]]
        b == CollapseRepeats(a, "", RepeatChars)
    IN  Strip(CollapseWhitespace(b, FALSE))

\* ToneChecker._normalize_for_checks: quote brackets go, their content stays
ToneChecker_normalize_for_checks(text) ==
    LET a == SelectSeq(text, LAMBDA c : c \notin QuoteChars)
    IN  NormalizeTail(RemoveSpans(a, {"<(>"}, {"<)>"}))

\* PraiseChecker._normalize_for_checks: quoted spans go with their content
PraiseChecker_normalize_for_checks(text) ==
    LET a == RemoveSpans(text, {"<[>", "<[[>"}, {"<]>", "<]]>"})
    IN  NormalizeTail(RemoveSpans(a, {"<(>"}, {"<)>"}))

\* _split_sentences: re.split(r"[。！？\n]+", text), blank pieces dropped
split_sentences(text) ==
    IF text = <<>> THEN <<>>
    ELSE StrippedNonBlank(SplitAnyAcc(text, {"<.>", "<!>", "<?>", "\n"}, <<>>))

ToneViolations(endings, words, slang) ==
    [forbidden_endings |-> endings, forbidden_words |-> words, forbidden_slang |-> slang]

YANA_VIOLATIONS ==
    ToneViolations(YANA_FORBIDDEN_ENDINGS, YANA_FORBIDDEN_WORDS, YANA_FORBIDDEN_SLANG)

AYU_VIOLATIONS ==
    ToneViolations(AYU_FORBIDDEN_ENDINGS, AYU_FORBIDDEN_WORDS, AYU_FORBIDDEN_SLANG)

\* ToneChecker.__init__: the keys of self.violations
KnownSpeakers == {YANA, AYU, LEGACY_A, LEGACY_B}

\* self.violations.get(speaker), for a known speaker
ToneChecker_violations(speaker) ==
    CASE speaker = YANA -> YANA_VIOLATIONS
      [] speaker = AYU -> AYU_VIOLATIONS
      [] speaker = LEGACY_A -> YANA_VIOLATIONS
      [] speaker = LEGACY_B -> AYU_VIOLATIONS

\* rf"{re.escape(ending)}(?=[。、？！\s]|$)" found in the normalized text
EndingFound(normalized, ending) ==
    \E i \in 0..(Len(normalized) - Len(ending)) :
        /\ StartsAt(normalized, i, ending)
        /\ \/ i + Len(ending) = Len(normalized)
           \/ normalized[i + Len(ending) + 1] \in {"<.>", "<,>", "<?>", "<!>"} \cup Whitespace

EXCLAMATION_WARN_THRESHOLD == 3

\* ToneChecker.check with its four _check_ helpers
ToneChecker_check(speaker, response) ==
    LET violations == ToneChecker_violations(speaker)
        normalized == ToneChecker_normalize_for_checks(response)
        e == FirstIndex(violations.forbidden_endings, LAMBDA x : EndingFound(normalized, x))
        w == FirstIndex(violations.forbidden_words, LAMBDA x : Contains(normalized, x))
        g == FirstIndex(violations.forbidden_slang, LAMBDA x : Contains(normalized, x))
    IN  IF speaker \notin KnownSpeakers
        THEN CheckResult("tone_check", TRUE, PASS, <<"Unknown speaker, skipping check">>, None)
        ELSE IF Strip(normalized) = <<>>
        THEN CheckResult("tone_check", TRUE, PASS, <<"OK (empty response)">>, None)
        ELSE IF e # 0
        THEN CheckResult("tone_check", FALSE, RETRY,
                         <<"tone: forbidden ending ">> \o violations.forbidden_endings[e],
                         <<"guidance: ">> \o violations.forbidden_endings[e])
        ELSE IF w # 0
        THEN CheckResult("tone_check", FALSE, RETRY,
                         <<"tone: forbidden word ">> \o violations.forbidden_words[w],
                         <<"guidance: ">> \o violations.forbidden_words[w])
        ELSE IF g # 0
        THEN CheckResult("tone_check", FALSE, RETRY,
                         <<"tone: forbidden slang ">> \o violations.forbidden_slang[g],
                         <<"guidance: ">> \o violations.forbidden_slang[g])
        ELSE IF speaker \in {LEGACY_A, YANA} /\ Count(normalized, "<!>") > EXCLAMATION_WARN_THRESHOLD
        THEN CheckResult("tone_check", TRUE, WARN, <<"tone: too many exclamation marks">>,
                         <<"suggest: calmer wording">>)
        ELSE CheckResult("tone_check", TRUE, PASS, <<"OK">>, None)

\* PraiseChecker.check: the first sentence that holds a praise word decides,
\* by the first praise word of the list it holds
PraiseChecker_check(speaker, response) ==
    LET sentences == split_sentences(PraiseChecker_normalize_for_checks(response))
        s == FirstIndex(sentences, LAMBDA x : ContainsAny(x, PRAISE_WORDS_FOR_AYU))
        word == PRAISE_WORDS_FOR_AYU[
                    FirstIndex(PRAISE_WORDS_FOR_AYU, LAMBDA x : Contains(sentences[s], x))]
    IN  IF speaker \in {LEGACY_A, YANA}
        THEN CheckResult("praise_check", TRUE, PASS, <<"Praise check only applies to Ayu">>, None)
        ELSE IF s = 0
        THEN CheckResult("praise_check", TRUE, PASS, <<"OK">>, None)
        ELSE IF ContainsAny(sentences[s], RECIPIENT_TOKENS)
        THEN CheckResult("praise_check", FALSE, RETRY, <<"praise: directed ">> \o word,
                         <<"suggest: inform, do not judge">>)
        ELSE CheckResult("praise_check", TRUE, WARN, <<"praise: evaluative word ">> \o word,
                         <<"suggest: explain instead">>)

\* ContextChecker._get_last_ayu_message; a message is [speaker, content]
get_last_ayu_message(history) ==
    IF history = <<>> THEN None
    ELSE IF history[Len(history)].speaker \in {AYU, LEGACY_B} THEN history[Len(history)].content
    ELSE None

\* ContextChecker.check
ContextChecker_check(speaker, response, history) ==
    LET last_ayu_message == get_last_ayu_message(history)
    IN  IF speaker \notin {YANA, LEGACY_A}
        THEN CheckResult("context_check", TRUE, PASS, <<"OK">>, None)
        ELSE IF ~ContainsAny(response, TOXICITY_REACTION_TRIGGERS)
        THEN CheckResult("context_check", TRUE, PASS, <<"OK">>, None)
        ELSE IF last_ayu_message = None
        THEN CheckResult("context_check", TRUE, PASS, <<"OK (no previous Ayu message)">>, None)
        ELSE IF ContainsAny(last_ayu_message, TOXIC_KEYWORDS)
        THEN CheckResult("context_check", TRUE, PASS, <<"OK">>, None)
        ELSE CheckResult("context_check", FALSE, RETRY, <<"context: reaction to absent toxicity">>,
                         <<"suggest: follow the context">>)

\* SettingChecker.check
SettingChecker_check(response) ==
    LET k == FirstIndex(SEPARATION_WORDS, LAMBDA x : Contains(response, x))
    IN  IF k # 0
        THEN CheckResult("setting_check", FALSE, RETRY,
                         <<"setting: living apart ">> \o SEPARATION_WORDS[k],
                         <<"suggest: the sisters live together">>)
        ELSE CheckResult("setting_check", TRUE, PASS, <<"OK">>, None)

\* FormatChecker(retry_line_threshold=8, warn_line_threshold=6)
retry_line_threshold == 8
warn_line_threshold == 6

\* a check whose thresholds are exclusive
FormatChecker_check_exclusive(retry_threshold, warn_threshold, response) ==
    LET line_count == Len(StrippedNonBlank(Split(response, "\n")))
    IN  IF line_count > retry_threshold
        THEN CheckResult("format_check", FALSE, RETRY, <<"format: too many lines">>,
                         <<"suggest: one utterance">>)
        ELSE IF line_count > warn_threshold
        THEN CheckResult("format_check", TRUE, WARN, <<"format: several lines">>,
                         <<"suggest: one utterance">>)
        ELSE CheckResult("format_check", TRUE, PASS, <<"OK">>, None)

\* FormatChecker(retry_threshold, warn_threshold).check
FormatChecker_check_with(retry_threshold, warn_threshold, response) ==
    LET line_count == Len(StrippedNonBlank(Split(response, "\n")))
    IN  IF line_count >= retry_threshold
        THEN CheckResult("format_check", FALSE, RETRY, <<"format: too many lines">>,
                         <<"suggest: one utterance">>)
        ELSE IF line_count >= warn_threshold
        THEN CheckResult("format_check", TRUE, WARN, <<"format: several lines">>,
                         <<"suggest: one utterance">>)
        ELSE CheckResult("format_check", TRUE, PASS, <<"OK">>, None)

\* FormatChecker().check, the checker DirectorMinimal constructs
FormatChecker_check(response) ==
    FormatChecker_check_with(retry_line_threshold, warn_line_threshold, response)

-----------------------------------------------------------------------------
(* interfaces.py: DirectorEvaluation; director_minimal.py                  *)

\* None where a record is optional (llm_score, rag_summary)
NoneRecord == [none |-> TRUE]

\* DirectorEvaluation(status, reason, suggestion, action="NOOP",
\* next_instruction=None, checks_passed, checks_failed, llm_score, rag_summary)
DirectorEvaluation(status, reason, suggestion, checks_passed, checks_failed, llm_score) ==
    [status |-> status, reason |-> reason, suggestion |-> suggestion,
     action |-> "NOOP", next_instruction |-> None,
     checks_passed |-> checks_passed, checks_failed |-> checks_failed,
     llm_score |-> llm_score, rag_summary |-> NoneRecord]

\* the early return of evaluate_response on a check that asks for a retry
RetryOn(result, checks_passed) ==
    DirectorEvaluation(RETRY, result.reason, result.suggestion,
                       checks_passed, <<result.name>>, NoneRecord)

\* a variant that records no warning
WarningOf_none(result) == <<>>

\* warnings.append(result.reason) when the check warns
WarningOf(result) == IF result.status = WARN THEN <<result.reason>> ELSE <<>>

\* a variant that runs every check and reports every failure
DirectorMinimal_run_all(speaker, response, topic, history, turn_number) ==
    LET results == << ThoughtChecker_check(response),
                      ToneChecker_check(speaker, response),
                      PraiseChecker_check(speaker, response),
                      ContextChecker_check(speaker, response, history),
                      SettingChecker_check(response),
                      FormatChecker_check(response) >>
        failed == SelectSeq(results, LAMBDA r : r.status = RETRY)
        passed == SelectSeq(results, LAMBDA r : r.status # RETRY)
    IN  DirectorEvaluation(IF failed = <<>> THEN PASS ELSE RETRY,
                           IF failed = <<>> THEN <<"OK">> ELSE failed[1].reason, None,
                           [i \in 1..Len(passed) |-> passed[i].name],
                           [i \in 1..Len(failed) |-> failed[i].name], NoneRecord)

\* DirectorMinimal.evaluate_response, on the results of the six checks; a
\* check after the first RETRY is not run and its result is not looked at
first_retry(thought_result, tone_result, praise_result, context_result, setting_result, format_result) ==
    LET warnings == WarningOf(thought_result) \o WarningOf(tone_result)
                    \o WarningOf(praise_result) \o WarningOf(format_result)
        all_names == <<"thought_check", "tone_check", "praise_check",
                       "context_check", "setting_check", "format_check">>
    IN  IF thought_result.status = RETRY
        THEN RetryOn(thought_result, <<>>)
        ELSE IF tone_result.status = RETRY
        THEN RetryOn(tone_result, SubSeq(all_names, 1, 1))
        ELSE IF praise_result.status = RETRY
        THEN RetryOn(praise_result, SubSeq(all_names, 1, 2))
        ELSE IF context_result.status = RETRY
        THEN RetryOn(context_result, SubSeq(all_names, 1, 3))
        ELSE IF setting_result.status = RETRY
        THEN RetryOn(setting_result, SubSeq(all_names, 1, 4))
        ELSE IF format_result.status = RETRY
        THEN RetryOn(format_result, SubSeq(all_names, 1, 5))
        ELSE IF warnings # <<>>
        THEN DirectorEvaluation(WARN, <<"warnings: ">> \o Join(<<",", " ">>, warnings),
                                <<"suggest: improve next turn">>, all_names, <<>>, NoneRecord)
        ELSE DirectorEvaluation(PASS, <<"OK">>, None, all_names, <<>>, NoneRecord)

\* DirectorMinimal.evaluate_response
DirectorMinimal_evaluate_response(speaker, response, topic, history, turn_number) ==
    first_retry(ThoughtChecker_check(response),
                ToneChecker_check(speaker, response),
                PraiseChecker_check(speaker, response),
                ContextChecker_check(speaker, response, history),
                SettingChecker_check(response),
                FormatChecker_check(response))

-----------------------------------------------------------------------------
(* the responses, speakers and histories the directors are given            *)

\* the first part of a response
ThoughtParts ==
    {
      \* no Thought: (nothing)
      <<>>,
      \* a full Thought: Thought: (Yana: あゆと話すの楽しい)\n
      <<"T", "h", "o", "u", "g", "h", "t", ":", " ", "(", "Y", "a", "n", "a", ":", " ", "_a", "yu", "to", "HANA", "su", "no", "TANOSHI", "shi", "_i", ")", "\n">>,
      \* an empty Thought: Thought:\n
      <<"T", "h", "o", "u", "g", "h", "t", ":", "\n">>,
      \* a Thought cut after the speaker prefix: Thought: (Yana:\n
      <<"T", "h", "o", "u", "g", "h", "t", ":", " ", "(", "Y", "a", "n", "a", ":", "\n">>,
      \* a Thought with an unclosed parenthesis: Thought: (たのし\n
      <<"T", "h", "o", "u", "g", "h", "t", ":", " ", "(", "ta", "no", "shi", "\n">>,
      \* a Thought of two characters: Thought: うん\n
      <<"T", "h", "o", "u", "g", "h", "t", ":", " ", "_u", "nn", "\n">>,
      \* a lower-case marker: thought: たのしい\n
      <<"t", "h", "o", "u", "g", "h", "t", ":", " ", "ta", "no", "shi", "_i", "\n">>,
      \* a Thought in polite speech: Thought: たのしいです\n
      <<"T", "h", "o", "u", "g", "h", "t", ":", " ", "ta", "no", "shi", "_i", "de", "su", "\n">> }

\* the second part of a response
OutputParts ==
    {
      \* no Output: (nothing)
      <<>>,
      \* a plain line: Output: 「おはよう」
      <<"O", "u", "t", "p", "u", "t", ":", " ", "<[>", "_o", "ha", "yo", "_u", "<]>">>,
      \* polite speech: Output: 「おはようございます」
      <<"O", "u", "t", "p", "u", "t", ":", " ", "<[>", "_o", "ha", "yo", "_u", "go", "za", "_i", "ma", "su", "<]>">>,
      \* casual speech: Output: 「そうじゃん」
      <<"O", "u", "t", "p", "u", "t", ":", " ", "<[>", "so", "_u", "ji", "xya", "nn", "<]>">>,
      \* praise with a recipient: Output: さすがあなた。
      <<"O", "u", "t", "p", "u", "t", ":", " ", "sa", "su", "ga", "_a", "na", "ta", "<.>">>,
      \* praise alone: Output: すごい。
      <<"O", "u", "t", "p", "u", "t", ":", " ", "su", "go", "_i", "<.>">>,
      \* quoted praise with a recipient: Output: 「さすがあなた」
      <<"O", "u", "t", "p", "u", "t", ":", " ", "<[>", "sa", "su", "ga", "_a", "na", "ta", "<]>">>,
      \* a reaction to harshness: Output: 厳しい
      <<"O", "u", "t", "p", "u", "t", ":", " ", "KIBI", "shi", "_i">>,
      \* the family home: Output: 実家に
      <<"O", "u", "t", "p", "u", "t", ":", " ", "JITSU", "IE", "ni">>,
      \* five lines: Output: x\nx\nx\nx\nx
      <<"O", "u", "t", "p", "u", "t", ":", " ", "x", "\n", "x", "\n", "x", "\n", "x", "\n", "x">>,
      \* seven lines: Output: x\nx\nx\nx\nx\nx\nx
      <<"O", "u", "t", "p", "u", "t", ":", " ", "x", "\n", "x", "\n", "x", "\n", "x", "\n", "x", "\n", "x", "\n", "x">>,
      \* four exclamation marks: Output: あ！い！う！え！
      <<"O", "u", "t", "p", "u", "t", ":", " ", "_a", "<!>", "_i", "<!>", "_u", "<!>", "_e", "<!>">>,
      \* polite speech and the family home: Output: 実家にございます
      <<"O", "u", "t", "p", "u", "t", ":", " ", "JITSU", "IE", "ni", "go", "za", "_i", "ma", "su">>,
      \* praise, the family home and seven lines: Output: さすがあなた。実家に\nx\nx\nx\nx\nx\nx
      <<"O", "u", "t", "p", "u", "t", ":", " ", "sa", "su", "ga", "_a", "na", "ta", "<.>", "JITSU", "IE", "ni", "\n", "x", "\n", "x", "\n", "x", "\n", "x", "\n", "x", "\n", "x">>,
      \* harshness and the family home: Output: 厳しい実家に
      <<"O", "u", "t", "p", "u", "t", ":", " ", "KIBI", "shi", "_i", "JITSU", "IE", "ni">>,
      \* the elder-sister title: Output: 姉様
      <<"O", "u", "t", "p", "u", "t", ":", " ", "ANE", "SAMA">>,
      \* slang: Output: マジ
      <<"O", "u", "t", "p", "u", "t", ":", " ", "Ma", "Ji">> }

Responses == {t \o o : t \in ThoughtParts, o \in OutputParts}

\* a speaker no checker knows
STRANGER == <<"x">>

Speakers == {YANA, AYU, LEGACY_A, LEGACY_B, STRANGER}

\* histories: empty; あゆ said それは無駄; あゆ said おはよう; B said おはよう;
\* あゆ said おはよう and やな answered うん
Histories ==
    { <<>>,
      <<[speaker |-> AYU, content |-> <<"so", "re", "ha", "NASHI", "DAA">>]>>,
      <<[speaker |-> AYU, content |-> <<"_o", "ha", "yo", "_u">>]>>,
      <<[speaker |-> LEGACY_B, content |-> <<"_o", "ha", "yo", "_u">>]>>,
      <<[speaker |-> AYU, content |-> <<"_o", "ha", "yo", "_u">>], [speaker |-> YANA, content |-> <<"_u", "nn">>]>> }

-----------------------------------------------------------------------------
(* the state the constructors leave, and the parts a specification that     *)
(* does not use them holds still                                            *)

ragVars == <<scene_context, blocked_props, recent_topics, seen_facts, current_triggers,
            dedupe_enabled, enabled, shown, steps>>
\* the session state without the count of operations
sessionVars == <<scene_context, blocked_props, recent_topics, seen_facts, current_triggers,
                dedupe_enabled, enabled, shown>>
directorVars == <<options, llm_calls, rag_attempts, last_injection_decision, llm_history>>

\* SessionRAG.__init__, RAGManager.__init__
\* nothing given yet: all is every (speaker, source, content) a search
\* returned, again those of the last result that had been returned before,
\* previous the result of the search before it when that was the same call
\* forgotten and unblocked are the facts returned and the props blocked in the
\* sessions before the last reset, last_topic the non-empty topic of the
\* last add_topic since the reset, by the operation of the director that
\* first surfaced each fact of all
NoHistory ==
    [all |-> {}, again |-> {}, repeats |-> FALSE, previous |-> <<>>,
     forgotten |-> {}, unblocked |-> {}, last_topic |-> <<>>, by |-> {}]

\* the history once a reset has emptied the session
Forgotten(history, props) ==
    [NoHistory EXCEPT !.forgotten = history.forgotten \cup history.all,
                      !.unblocked = history.unblocked \cup Elems(props)]

InitRAGWith(dedupe) ==
    /\ scene_context = NoneRecord
    /\ blocked_props = <<>>
    /\ recent_topics = <<>>
    /\ seen_facts = [s \in {} |-> {}]
    /\ current_triggers = <<>>
    /\ dedupe_enabled = dedupe
    /\ enabled = TRUE
    /\ shown = NoHistory
    /\ steps = 0

\* RAGManager() as DirectorHybrid constructs it: dedupe_enabled=True
InitRAG == InitRAGWith(TRUE)

\* DirectorLLM.__init__, DirectorHybrid.__init__ with the arguments o
InitDirectorsWith(o) ==
    /\ options = o
    /\ llm_calls = <<>>
    /\ rag_attempts = <<>>
    /\ last_injection_decision = NoneRecord
    /\ llm_history = <<>>

\* no Director constructed
InitDirectors == InitDirectorsWith(NoneRecord)

-----------------------------------------------------------------------------
(* Scores and the threshold policy as a state machine: a Score is built    *)
(* from its arguments, then determine_status judges it                     *)

AxisValues == {2000, 3000, 4000, 6000, 9000}
OverallValues == {0, 3900, 4000, 5000, 6000, 7600}

\* ThresholdConfig(retry_overall, retry_character, retry_relationship, warn_overall)
ThresholdConfig(ro, rc, rr, wo) ==
    [retry_overall |-> ro, retry_character |-> rc,
     retry_relationship |-> rr, warn_overall |-> wo]

\* the default configuration, the one of tests/test_thresholds.py, one with a
\* high character floor, and one that leaves no room for WARN
ThresholdConfigs ==
    { DefaultThresholdConfig,
      ThresholdConfig(5000, 3000, 3000, 7000),
      ThresholdConfig(4000, 6000, 3000, 6000),
      ThresholdConfig(6000, 3000, 3000, 6000) }

InitPolicy ==
    /\ op = "input"
    /\ arg \in [character_consistency : AxisValues, topic_novelty : AxisValues,
                relationship_quality : AxisValues, naturalness : AxisValues,
                concreteness : AxisValues, overall_score : OverallValues,
                config : ThresholdConfigs]
    /\ ret = NoneRecord
    /\ InitRAG /\ InitDirectors

\* LLMEvaluationScore(...)
ConstructScore ==
    /\ op = "input"
    /\ op' = "LLMEvaluationScore"
    /\ \E err \in RoundingErrors :
           ret' = LLMEvaluationScore(arg.character_consistency, arg.topic_novelty,
                                     arg.relationship_quality, arg.naturalness,
                                     arg.concreteness, arg.overall_score, <<>>, err)
    /\ UNCHANGED <<arg, ragVars, directorVars>>

\* determine_status(score, config)
DetermineStatus ==
    /\ op = "LLMEvaluationScore"
    /\ op' = "determine_status"
    /\ ret' = [score |-> ret, status |-> determine_status(ret, arg.config)]
    /\ UNCHANGED <<arg, ragVars, directorVars>>

NextPolicy == ConstructScore \/ DetermineStatus

SpecPolicy == InitPolicy /\ [][NextPolicy]_vars

\* C6: determine_status applies its rules in order: a Score below the
\* character floor or below the relationship floor is RETRY whatever its
\* overall score; otherwise an overall score below retry_overall is RETRY,
\* otherwise one below warn_overall is WARN, otherwise the Score passes; the
\* result is one of PASS, WARN, RETRY.
C6_StrictOrder ==
    op = "determine_status" =>
        LET s == ret.score
            c == arg.config
            floor == \/ s.character_consistency < c.retry_character
                     \/ s.relationship_quality < c.retry_relationship
        IN  /\ ret.status \in {PASS, WARN, RETRY}
            /\ floor => ret.status = RETRY
            /\ ~floor /\ s.overall_score < c.retry_overall => ret.status = RETRY
            /\ ~floor /\ s.overall_score >= c.retry_overall
                      /\ s.overall_score < c.warn_overall => ret.status = WARN
            /\ ~floor /\ s.overall_score >= c.retry_overall
                      /\ s.overall_score >= c.warn_overall => ret.status = PASS

\* a Score below the character floor with an overall score that would pass
C6_Witness ==
    /\ op = "determine_status"
    /\ ret.score.character_consistency < arg.config.retry_character
    /\ ret.score.overall_score >= arg.config.warn_overall
    /\ ret.status = RETRY

C8_OverallScore ==
    op = "LLMEvaluationScore" =>
        /\ arg.overall_score = 0 =>
               100 * ret.overall_score
                   - (25 * arg.character_consistency + 20 * arg.topic_novelty
                      + 25 * arg.relationship_quality + 15 * arg.naturalness
                      + 15 * arg.concreteness) \in {-100, 0, 100}
        /\ arg.overall_score # 0 => ret.overall_score = arg.overall_score
        /\ ret.character_consistency = arg.character_consistency
        /\ ret.topic_novelty = arg.topic_novelty
        /\ ret.relationship_quality = arg.relationship_quality
        /\ ret.naturalness = arg.naturalness
        /\ ret.concreteness = arg.concreteness

\* a Score built without an overall score from unequal axes
C8_Witness ==
    /\ op = "LLMEvaluationScore"
    /\ arg.overall_score = 0
    /\ arg.topic_novelty # arg.relationship_quality
    /\ ret.overall_score # 0

\* a Score built with an overall score that differs from its weighted average
C8_WitnessKept ==
    /\ op = "LLMEvaluationScore"
    /\ arg.overall_score = 7600
    /\ ret.overall_score = 7600
    /\ arg.character_consistency = 2000

-----------------------------------------------------------------------------
(* DirectorMinimal as a state machine: it keeps no state, so each call is  *)
(* an input and its evaluation                                             *)

InitMinimal ==
    /\ op = "input"
    /\ arg \in [speaker : Speakers, response : Responses, history : Histories]
    /\ ret = NoneRecord
    /\ InitRAG /\ InitDirectors

\* DirectorMinimal.evaluate_response
MinimalEvaluate ==
    /\ op = "input"
    /\ op' = "evaluate_response"
    /\ ret' = DirectorMinimal_evaluate_response(arg.speaker, arg.response, <<>>, arg.history, 1)
    /\ UNCHANGED <<arg, ragVars, directorVars>>

\* DirectorMinimal.commit_evaluation: nothing to record
MinimalCommit ==
    /\ op = "evaluate_response"
    /\ op' = "commit_evaluation"
    /\ UNCHANGED <<arg, ret, ragVars, directorVars>>

\* DirectorMinimal.reset_for_new_session: nothing to forget
MinimalReset ==
    /\ op \in {"evaluate_response", "commit_evaluation"}
    /\ op' = "reset_for_new_session"
    /\ UNCHANGED <<arg, ret, ragVars, directorVars>>

NextMinimal == MinimalEvaluate \/ MinimalCommit \/ MinimalReset

SpecMinimal == InitMinimal /\ [][NextMinimal]_vars

\* the six checks of the suite on a call's arguments, in the documented order
SuiteResults(a) ==
    << ThoughtChecker_check(a.response),
       ToneChecker_check(a.speaker, a.response),
       PraiseChecker_check(a.speaker, a.response),
       ContextChecker_check(a.speaker, a.response, a.history),
       SettingChecker_check(a.response),
       FormatChecker_check(a.response) >>

C1_WitnessThought ==
    /\ op = "evaluate_response"
    /\ ret.checks_failed = <<"thought_check">>
    /\ ret.checks_passed = <<>>
    /\ ToneChecker_check(arg.speaker, arg.response).status = RETRY

-----------------------------------------------------------------------------
(* llm/evaluator.py, llm/prompts.py, config/thresholds.py: build_reason,   *)
(* director_llm.py                                                         *)
(*                                                                         *)
(* What generate returns is a sequence of tokens: Brace("{"), Brace("}"),  *)
(* Prose (any text without braces) and Field(key, kind, val), one member   *)
(* of a JSON object; kind is "num" (val in 1/10000), "text" (a string that *)
(* is no number), "null", or "list" (val a list of strings).  A call of    *)
(* generate either raises or returns such a sequence.                      *)

Brace(b) == [t |-> b]
Prose == [t |-> "prose"]
Field(key, kind, val) == [t |-> "field", key |-> key, kind |-> kind, val |-> val]

\* format_history; （会話開始） for no history
format_history(history) ==
    IF history = <<>> THEN <<"<(>", "MEET", "HANA", "OPEN", "BEGIN", "<)>">>
    ELSE Join(<<"\n">>, [i \in 1..Len(history) |->
                            history[i].speaker \o <<":", " ">> \o history[i].content])

\* extract_output: re.search(r"[Oo]utput:\s*(.*)$", response, re.DOTALL)
extract_output(response) ==
    LET marks == {i \in 0..(Len(response) - 7) :
                     /\ response[i + 1] \in {"O", "o"}
                     /\ StartsAt(response, i + 1, <<"u", "t", "p", "u", "t", ":">>)}
        first == CHOOSE i \in marks : \A j \in marks : i <= j
    IN  IF marks = {} THEN response ELSE Strip(From(response, first + 7))

\* build_evaluation_prompt: the parts of the template that vary
build_evaluation_prompt(speaker, response, topic, history) ==
    [speaker |-> speaker, response |-> response, history |-> format_history(history)]

\* LLMEvaluator._clamp
clamp(value) ==
    IF value.kind = "num"
    THEN (IF value.val < 0 THEN 0 ELSE IF value.val > UNIT THEN UNIT ELSE value.val)
    ELSE UNIT \div 2

\* the Score both fallbacks of the evaluator return
FallbackScore(issue, err) ==
    LLMEvaluationScore(UNIT \div 2, UNIT \div 2, UNIT \div 2, UNIT \div 2, UNIT \div 2, 0,
                       [kind |-> "list", val |-> <<issue>>], err)

\* the index of the first "}" after index i of the reply, 0 when there is none
CloseAfter(text, i) ==
    IF \E j \in (i + 1)..Len(text) : text[j] = Brace("}")
    THEN CHOOSE j \in (i + 1)..Len(text) :
             text[j] = Brace("}") /\ \A k \in (i + 1)..(j - 1) : text[k] # Brace("}")
    ELSE 0

\* data.get(key, default) on the members of a JSON object (the last one wins)
DataGet(members, key, default) ==
    LET at == {k \in 1..Len(members) : members[k].key = key}
    IN  IF at = {} THEN default
        ELSE LET m == members[CHOOSE k \in at : \A j \in at : j <= k]
             IN  [kind |-> m.kind, val |-> m.val]

\* LLMEvaluator._parse_response
parse_response(text, err) ==
    LET opens == {i \in 1..Len(text) : text[i] = Brace("{") /\ CloseAfter(text, i) # 0}
        \* \{[^{}]*"character_consistency"[^{}]*\}
        strict == {i \in opens :
                      /\ \A k \in (i + 1)..(CloseAfter(text, i) - 1) : text[k] # Brace("{")
                      /\ \E k \in (i + 1)..(CloseAfter(text, i) - 1) :
                             text[k].t = "field" /\ text[k].key = "character_consistency"}
        \* \{[^}]+\}
        loose == {i \in opens : CloseAfter(text, i) >= i + 2}
        found == IF strict # {} THEN strict ELSE loose
        i0 == CHOOSE i \in found : \A j \in found : i <= j
        members == SubSeq(text, i0 + 1, CloseAfter(text, i0) - 1)
        half == [kind |-> "num", val |-> UNIT \div 2]
    IN  IF found # {} /\ \A k \in 1..Len(members) : members[k].t = "field"
        THEN LLMEvaluationScore(
                 clamp(DataGet(members, "character_consistency", half)),
                 clamp(DataGet(members, "topic_novelty", half)),
                 clamp(DataGet(members, "relationship_quality", half)),
                 clamp(DataGet(members, "naturalness", half)),
                 clamp(DataGet(members, "concreteness", half)),
                 clamp(DataGet(members, "overall_score", [kind |-> "num", val |-> 0])),
                 DataGet(members, "issues", [kind |-> "list", val |-> <<>>]),
                 err)
        ELSE FallbackScore(<<"JSON parse error: could not extract valid JSON">>, err)

\* LLMEvaluator.evaluate_single_turn: reply is what llm_client.generate does
evaluate_single_turn(reply, err) ==
    IF reply.raises
    THEN FallbackScore(<<"LLM evaluation error: ">> \o reply.error, err)
    ELSE parse_response(reply.text, err)

\* f"{x:.2f}"
Fmt2(x) ==
    LET q == (x + 50) \div 100
    IN  <<ToString(q \div 100), ".", ToString((q \div 10) % 10), ToString(q % 10)>>

\* `if score.issues:` holds and the issues cannot be sliced and joined
IssuesRaise(issues) == issues.kind = "num" /\ issues.val # 0

\* score.issues[:n], for issues that can be sliced
IssuesHead(issues, n) ==
    IF issues.kind = "list" THEN SubSeq(issues.val, 1, IF Len(issues.val) < n THEN Len(issues.val) ELSE n)
    ELSE <<>>

\* build_reason, for issues that can be joined
build_reason(score, status) ==
    LET metrics == << <<"char=">> \o Fmt2(score.character_consistency),
                      <<"novelty=">> \o Fmt2(score.topic_novelty),
                      <<"rel=">> \o Fmt2(score.relationship_quality),
                      <<"nat=">> \o Fmt2(score.naturalness),
                      <<"conc=">> \o Fmt2(score.concreteness) >>
        parts == << <<"[", status, "]">>,
                    <<"LLM evaluation: overall=">> \o Fmt2(score.overall_score),
                    <<"(">> \o Join(<<",", " ">>, metrics) \o <<")">> >>
                 \o (IF IssuesHead(score.issues, 3) # <<>>
                     THEN << <<"Issues: ">> \o Join(<<";", " ">>, IssuesHead(score.issues, 3)) >>
                     ELSE <<>>)
    IN  Join(<<" ">>, parts)

\* DirectorLLM._build_suggestion
build_suggestion(score, status) ==
    LET weak(value, text) == IF value < UNIT \div 2 THEN <<text>> ELSE <<>>
        suggestions == weak(score.character_consistency, <<"suggest: character consistency">>)
                       \o weak(score.topic_novelty, <<"suggest: avoid repeated topics">>)
                       \o weak(score.relationship_quality, <<"suggest: sisterly exchange">>)
                       \o weak(score.naturalness, <<"suggest: naturalness">>)
                       \o weak(score.concreteness, <<"suggest: concrete information">>)
                       \o IssuesHead(score.issues, 2)
    IN  IF status = PASS \/ suggestions = <<>> THEN None
        ELSE Join(<<";", " ">>, SubSeq(suggestions, 1, IF Len(suggestions) < 3 THEN Len(suggestions) ELSE 3))

\* a variant that hands the score on in the Evaluation
llm_evaluation_with_score(score, status) ==
    DirectorEvaluation(status, build_reason(score, status),
                       build_suggestion(score, status),
                       IF status # RETRY THEN <<"llm_evaluation">> ELSE <<>>,
                       IF status = RETRY THEN <<"llm_evaluation">> ELSE <<>>,
                       score)

\* a variant that counts the LLM check as passed only on PASS
llm_evaluation_pass_only(score, status) ==
    DirectorEvaluation(status, build_reason(score, status),
                       build_suggestion(score, status),
                       IF status = PASS THEN <<"llm_evaluation">> ELSE <<>>,
                       IF status # PASS THEN <<"llm_evaluation">> ELSE <<>>,
                       NoneRecord)

\* DirectorLLM.evaluate_response, on the score and the status the thresholds
\* give it
llm_evaluation(score, status) ==
    IF IssuesRaise(score.issues)
    THEN \* except Exception
         DirectorEvaluation(WARN, <<"[WARN] LLM evaluation error: ", "TypeError">>,
                            <<"suggest: check by hand">>, <<>>, <<"llm_evaluation">>,
                            NoneRecord)
    ELSE DirectorEvaluation(status, build_reason(score, status),
                            build_suggestion(score, status),
                            IF status # RETRY THEN <<"llm_evaluation">> ELSE <<>>,
                            IF status = RETRY THEN <<"llm_evaluation">> ELSE <<>>,
                            NoneRecord)

\* status = determine_status(score, self.threshold_config)
llm_scored(score, config) == llm_evaluation(score, determine_status(score, config))

\* DirectorLLM.evaluate_response: [raised, value], or [raised, error] if it raised
DirectorLLM_evaluate_response(config, reply, err, speaker, response, topic, history, turn_number) ==
    [raised |-> FALSE, value |-> llm_scored(evaluate_single_turn(reply, err), config)]

-----------------------------------------------------------------------------
(* rag/fact_card.py, rag/persona_rag.py, rag/session_rag.py,               *)
(* rag/rag_manager.py: the fact store                                      *)

MAX_FACT_LENGTH == 50
MAX_FACT_COUNT == 3

\* FactCard: the constructor raises ValueError for a content over
\* MAX_FACT_LENGTH; every caller below tests the length first
FactCard(content, source, priority, confidence) ==
    [content |-> content, source |-> source, priority |-> priority,
     confidence |-> confidence]

\* list.sort(key=...): stable, ascending.  x goes before the first element
\* of sorted whose key is greater; Later is the set of their positions
InsertBefore(sorted, x, Later) ==
    LET p == IF Later = {} THEN Len(sorted) + 1
             ELSE CHOOSE k \in Later : \A j \in Later : k <= j
    IN  SubSeq(sorted, 1, p - 1) \o <<x>> \o SubSeq(sorted, p, Len(sorted))

\* xs[:n] for n >= 0
Prefix(xs, n) == SubSeq(xs, 1, IF n < Len(xs) THEN n ELSE Len(xs))

\* [x for x in xs if keep(x)]
Filter(xs, Keep(_)) ==
    LET F[i \in 0..Len(xs)] ==
            IF i = 0 THEN <<>>
            ELSE F[i - 1] \o (IF Keep(xs[i]) THEN <<xs[i]>> ELSE <<>>)
    IN  F[Len(xs)]

\* str(n) for n >= 0
RECURSIVE Digits(_)
Digits(n) == IF n < 10 THEN <<ToString(n)>> ELSE Digits(n \div 10) \o <<ToString(n % 10)>>

\* config/persona_rules.yaml as PersonaRAG.config holds it.  The file is
\* not part of the sources; the rules are those the tests and the tone
\* checker name: YANA must not say TERM1 TERM2 TERM3, AYU must not say
\* TERM4, YANA calls AYU by her name and AYU calls YANA ANE-SAMA.
\*   TERM1 = です  TERM2 = ます  TERM3 = 姉様  TERM4 = やなちゃん
PersonaConfig ==
    [characters |->
        (YANA :> [speech_style |-> [prohibited |-> << <<"de", "su">>, <<"ma", "su">>, <<"ANE", "SAMA">> >>,
                                    tone |-> <<"KUDA", "ke", "ta", "KUCHI", "CHOU">>],
                  addressing |-> (AYU :> <<"_a", "yu">>)]
         @@
         AYU :> [speech_style |-> [prohibited |-> << <<"ya", "na", "chi", "xya", "nn">> >>,
                                   tone |-> <<"TEI", "NEI", "na", "KUCHI", "CHOU">>],
                 addressing |-> (YANA :> <<"ANE", "SAMA">>)])]

\* PersonaRAG._check_prohibited_terms: 「{speaker}は「{term}」を使わない。」
check_prohibited_terms(speaker, response_text, char_config) ==
    LET prohibited == char_config.speech_style.prohibited
        Fact(term) == speaker \o <<"ha", "<[>">> \o term \o <<"<]>", "wo", "TSUKA", "wa", "na", "_i", "<.>">>
        Hits == Filter(prohibited,
                       LAMBDA term : /\ Contains(response_text, term)
                                     /\ Len(Fact(term)) <= 50)
    IN  [k \in 1..Len(Hits) |-> FactCard(Fact(Hits[k]), "persona", 1, UNIT)]

\* PersonaRAG._get_addressing_fact: the fact, or no fact, as a list
get_addressing_fact(config, speaker, char_config) ==
    LET other_char == IF speaker = YANA THEN AYU ELSE YANA
        addressing == char_config.addressing
    IN  IF other_char \notin DOMAIN addressing THEN <<>>
        ELSE
        LET address_term == addressing[other_char]
            other_addressing ==
                IF other_char \in DOMAIN config.characters
                THEN config.characters[other_char].addressing ELSE <<>>
            fact_content ==
                IF speaker \in DOMAIN other_addressing
                THEN speaker \o <<"ha", "<[>">> \o address_term \o <<"<]>", "<,>">>
                     \o other_char \o <<"ha", "<[>">> \o other_addressing[speaker]
                     \o <<"<]>", "to", "YOBU", "bu", "<.>">>
                ELSE speaker \o <<"ha">> \o other_char \o <<"wo", "<[>">> \o address_term
                     \o <<"<]>", "to", "YOBU", "bu", "<.>">>
        IN  IF Len(fact_content) <= 50
            THEN <<FactCard(fact_content, "persona", 3, UNIT)>> ELSE <<>>

\* PersonaRAG._get_speech_style_fact: 「{speaker}の話し方: {tone}。」
get_speech_style_fact(speaker, char_config) ==
    LET tone == char_config.speech_style.tone
        fact_content == speaker \o <<"no", "HANA", "shi", "KATA", ":", " ">> \o tone \o <<"<.>">>
    IN  IF tone # <<>> /\ Len(fact_content) <= 50
        THEN <<FactCard(fact_content, "persona", 3, UNIT)>> ELSE <<>>

ByPriority(a, b) == a.priority < b.priority

\* facts.sort(key=lambda f: f.priority)
SortByPriority(facts) ==
    LET S[i \in 0..Len(facts)] ==
            IF i = 0 THEN <<>>
            ELSE InsertBefore(S[i - 1], facts[i],
                    {k \in 1..Len(S[i - 1]) : ByPriority(facts[i], S[i - 1][k])})
    IN  S[Len(facts)]

\* PersonaRAG.search
PersonaRAG_search(config, speaker, response_text, max_facts) ==
    IF speaker \notin DOMAIN config.characters THEN <<>>
    ELSE
    LET char_config == config.characters[speaker]
        facts == check_prohibited_terms(speaker, response_text, char_config)
                 \o get_addressing_fact(config, speaker, char_config)
                 \o get_speech_style_fact(speaker, char_config)
    IN  Prefix(SortByPriority(facts), max_facts)

\* SceneContext: of its fields only available_props reaches a fact
SceneContext(available_props) == [available_props |-> available_props]

\* SessionRAG._check_blocked_props: 「「{prop}」はSceneに存在しない。」
check_blocked_props(props, response_text) ==
    LET Fact(prop) == <<"<[>">> \o prop \o <<"<]>", "ha", "S", "c", "e", "n", "e", "ni", "SON", "ZAI", "shi", "na", "_i", "<.>">>
        Hits == Filter(props,
                       LAMBDA prop : /\ Contains(response_text, prop)
                                     /\ Len(Fact(prop)) <= 50)
    IN  [k \in 1..Len(Hits) |-> FactCard(Fact(Hits[k]), "session", 1, UNIT)]

\* SessionRAG._get_scene_props_fact: 「Sceneにある物: ...。」, or the count
\* 「Sceneには{n}個の小物がある。」 when the list is too long
get_scene_props_fact(context) ==
    IF context = NoneRecord \/ context.available_props = <<>> THEN <<>>
    ELSE
    LET props == context.available_props
        Quoted(ps) == [k \in 1..Len(ps) |-> <<"<[>">> \o ps[k] \o <<"<]>">>]
        props_str ==
            IF Len(props) = 1 THEN Quoted(props)[1]
            ELSE IF Len(props) <= 3 THEN Join(<<"<,>">>, Quoted(props))
            ELSE Join(<<"<,>">>, Quoted(Prefix(props, 3))) \o <<"na", "do">>
        fact_content == <<"S", "c", "e", "n", "e", "ni", "_a", "ru", "MONO", ":", " ">> \o props_str \o <<"<.>">>
    IN  IF Len(fact_content) <= 50
        THEN <<FactCard(fact_content, "session", 2, UNIT)>>
        ELSE <<FactCard(<<"S", "c", "e", "n", "e", "ni", "ha">> \o Digits(Len(props)) \o <<"KOSUU", "no", "SHOU", "MONO", "ga", "_a", "ru", "<.>">>,
                        "session", 2, 8000)>>

\* SessionRAG._get_current_topic_fact: 「現在の話題: 「{topic}」。」
get_current_topic_fact(topics) ==
    IF topics = <<>> THEN <<>>
    ELSE
    LET fact_content == <<"NOW", "ZAI", "no", "HANA", "TOPIC", ":", " ", "<[>">> \o topics[Len(topics)] \o <<"<]>", "<.>">>
    IN  IF Len(fact_content) <= 50
        THEN <<FactCard(fact_content, "session", 4, 9000)>> ELSE <<>>

\* SessionRAG.search
SessionRAG_search(context, props, topics, speaker, response_text, max_facts) ==
    LET facts == check_blocked_props(props, response_text)
                 \o get_scene_props_fact(context)
                 \o get_current_topic_fact(topics)
    IN  Prefix(SortByPriority(facts), max_facts)

\* TAG_MAPPING, in the order of the dict:
\*   使わない, 呼ぶ, 話し方, Scene, 存在しない, 話題
TAG_MAPPING ==
    << <<<<"TSUKA", "wa", "na", "_i">>, "STYLE">>,
       <<<<"YOBU", "bu">>, "REL">>,
       <<<<"HANA", "shi", "KATA">>, "STYLE">>,
       <<<<"S", "c", "e", "n", "e">>, "SCENE">>,
       <<<<"SON", "ZAI", "shi", "na", "_i">>, "SCENE">>,
       <<<<"HANA", "TOPIC">>, "SCENE">> >>

\* RAGManager._get_fact_tag
get_fact_tag(fact) ==
    LET Hits == Filter(TAG_MAPPING, LAMBDA m : Contains(fact.content, m[1]))
    IN  IF Hits = <<>> THEN "STYLE" ELSE Hits[1][2]

\* RAGManager._get_fact_id: f"{source}:{hash(content)}"; the hash of a str
\* is written as the str it hashes (distinct contents, distinct hashes)
get_fact_id(fact) == <<fact.source, fact.content>>

\* a variant that remembers nothing of what a speaker was given
SeenBy_none(seen, speaker) == {}

\* dict.get(speaker, set()) on RAGManager._seen_facts
SeenBy(seen, speaker) == IF speaker \in DOMAIN seen THEN seen[speaker] ELSE {}

\* a variant that counts no fact against its tag
TagCount_zero(tag_counts, tag) == 0

\* dict.get(tag, 0) on tag_counts
TagCount(tag_counts, tag) == IF tag \in DOMAIN tag_counts THEN tag_counts[tag] ELSE 0

\* a variant in which no trigger brings a seen fact back
should_force_never(tag, force_scene, force_style) == FALSE

\* should_force of _select_with_limits: a seen fact is shown again when its
\* tag was triggered in this search
should_force(tag, force_scene, force_style) ==
    \/ tag = "SCENE" /\ force_scene
    \/ tag = "STYLE" /\ force_style

\* RAGManager._select_with_limits: the loop over the sorted candidates;
\* acc carries selected, tag_counts, seen_contents and the speaker's set of
\* _seen_facts.  DEFAULT_MAX_PER_TAG allows one fact of each tag.
RECURSIVE SelectLoop(_, _, _, _, _, _)
SelectLoop(facts, acc, max_count, dedupe, force_scene, force_style) ==
    IF facts = <<>> \/ Len(acc.selected) >= max_count THEN acc
    ELSE
    LET fact == Head(facts)
        tag == get_fact_tag(fact)
        fact_id == get_fact_id(fact)
        skip == \/ TagCount(acc.tag_counts, tag) >= 1
                \/ fact.content \in acc.seen_contents
                \/ dedupe /\ fact_id \in acc.seen /\ ~should_force(tag, force_scene, force_style)
        next == IF skip THEN acc
                ELSE [selected |-> Append(acc.selected, fact),
                      tag_counts |-> [t \in DOMAIN acc.tag_counts \cup {tag} |->
                                        IF t = tag THEN TagCount(acc.tag_counts, tag) + 1
                                        ELSE acc.tag_counts[t]],
                      seen_contents |-> acc.seen_contents \cup {fact.content},
                      seen |-> acc.seen \cup {fact_id}]
    IN  SelectLoop(Tail(facts), next, max_count, dedupe, force_scene, force_style)

\* RAGManager._select_with_limits
select_with_limits(facts, seen, max_count, dedupe, force_scene, force_style) ==
    SelectLoop(facts,
               [selected |-> <<>>, tag_counts |-> [t \in {} |-> 0],
                seen_contents |-> {}, seen |-> seen],
               max_count, dedupe, force_scene, force_style)

\* the key of RAGManager.search's sort: (priority, -confidence)
ByPriorityConfidence(a, b) ==
    \/ a.priority < b.priority
    \/ a.priority = b.priority /\ a.confidence > b.confidence

\* all_facts.sort(key=lambda f: (f.priority, -f.confidence))
SortByPriorityConfidence(facts) ==
    LET S[i \in 0..Len(facts)] ==
            IF i = 0 THEN <<>>
            ELSE InsertBefore(S[i - 1], facts[i],
                    {k \in 1..Len(S[i - 1]) : ByPriorityConfidence(facts[i], S[i - 1][k])})
    IN  S[Len(facts)]

\* RAGResult(sources_searched=["persona", "session"]) with the facts
\* RAGResult.add_fact accepts (it refuses a fact past MAX_FACT_COUNT)
RAGResult(facts) ==
    [facts |-> Prefix(facts, MAX_FACT_COUNT),
     sources_searched |-> <<"persona", "session">>]

\* RAGManager.search: the result, the triggers and the seen facts it leaves
RAGManager_search(config, context, props, topics, seen, dedupe_on, speaker, response_text, max_facts, force_all) ==
    LET persona_facts == PersonaRAG_search(config, speaker, response_text, max_facts)
        session_facts == SessionRAG_search(context, props, topics, speaker,
                                           response_text, max_facts)
        has_blocked_prop_violation == ContainsAny(response_text, props)
        has_prohibited_term ==
            \E k \in 1..Len(persona_facts) : Contains(persona_facts[k].content, <<"TSUKA", "wa", "na", "_i">>)
        triggers == (IF has_blocked_prop_violation THEN <<"blocked_props">> ELSE <<>>)
                    \o (IF has_prohibited_term THEN <<"prohibited_terms">> ELSE <<>>)
        all_facts == SortByPriorityConfidence(persona_facts \o session_facts)
        loop == select_with_limits(all_facts, SeenBy(seen, speaker), max_facts,
                                   dedupe_on /\ ~force_all,
                                   "blocked_props" \in Elems(triggers),
                                   "prohibited_terms" \in Elems(triggers))
    IN  [result |-> RAGResult(loop.selected),
         triggers |-> triggers,
         seen |-> [s \in DOMAIN seen \cup {speaker} |->
                      IF s = speaker THEN loop.seen ELSE seen[s]]]

\* RAGManager.search after set_enabled(False): an empty result, the triggers
\* of the search before forgotten, nothing marked as seen
search_disabled(seen) ==
    [result |-> RAGResult(<<>>), triggers |-> <<>>, seen |-> seen]

\* a reset that keeps the blocked props
reset_session_keeping_props(context, props, topics, seen, triggers) ==
    [scene_context |-> NoneRecord, blocked_props |-> props, recent_topics |-> <<>>,
     seen_facts |-> [s \in {} |-> {}], current_triggers |-> <<>>]

\* RAGManager.reset_session with SessionRAG.reset: the session state they
\* leave
reset_session(context, props, topics, seen, triggers) ==
    [scene_context |-> NoneRecord, blocked_props |-> <<>>, recent_topics |-> <<>>,
     seen_facts |-> [s \in {} |-> {}], current_triggers |-> <<>>]

-----------------------------------------------------------------------------
(* The fact store as a state machine: the session operations of            *)
(* RAGManager in any order, MaxOps of them.                                *)

MaxOps == 3

RagSpeakers == {YANA, AYU}

\* a prop name of 36 characters: its fact 「...」はSceneに存在しない。 has 51
LongProp == [i \in 1..36 |-> "Na"]

\* 話し方メモ: a prop whose fact reads as a STYLE fact (話し方 comes before
\* Scene in TAG_MAPPING)
StyleProp == <<"HANA", "shi", "KATA", "Me", "Mo">>

\* テスト / グラスです (a prop, and a term YANA must not use) / the long name
\* followed by 話し方メモ
RagTexts ==
    { <<"Te", "Su", "To">>,
      <<"Gu", "Ra", "Su", "de", "su">>,
      LongProp \o StyleProp }

\* グラス, the long name, 話し方メモ
RagProps ==
    { <<"Gu", "Ra", "Su">>, LongProp, StyleProp }

\* four props (the list is cut to three); three long names (the list does
\* not fit and the count is given)
SceneContexts ==
    { SceneContext(<<<<"Ma", "Gu", "Ka", "Xtsu", "Pu">>, <<"HON">>, <<"_o", "CHA">>, <<"Gu", "Ra", "Su">>>>),
      SceneContext(<<<<"to", "te", "mo", "DAI", "ki", "na", "Ma", "Gu", "Ka", "Xtsu", "Pu">>,
                     <<"to", "te", "mo", "DAI", "ki", "na", "Ma", "Gu", "Ka", "Xtsu", "Pu">>,
                     <<"to", "te", "mo", "DAI", "ki", "na", "Ma", "Gu", "Ka", "Xtsu", "Pu">>>>) }

\* 天気, and 話し方 (a topic whose fact reads as a STYLE fact)
RagTopics ==
    { <<"TEN", "KIBUN">>,
      <<"HANA", "shi", "KATA">> }

\* max_facts and force_all: the defaults, a single fact, and the
\* debugging call that bypasses the deduplication
SearchOptions ==
    { [max_facts |-> MAX_FACT_COUNT, force_all |-> FALSE],
      [max_facts |-> 1, force_all |-> FALSE],
      [max_facts |-> 5, force_all |-> TRUE] }

InitRAGSession ==
    /\ op = "init" /\ arg = NoneRecord /\ ret = NoneRecord
    /\ \E dedupe \in BOOLEAN : InitRAGWith(dedupe)
    /\ InitDirectors

\* RAGManager.set_scene_context
RagSetSceneContext ==
    \E context \in SceneContexts :
        /\ steps < MaxOps /\ steps' = steps + 1
        /\ op' = "set_scene_context" /\ arg' = context /\ ret' = NoneRecord
        /\ scene_context' = context
        /\ UNCHANGED <<blocked_props, recent_topics, seen_facts, current_triggers,
                       dedupe_enabled, enabled, shown, directorVars>>

\* RAGManager.add_blocked_prop
RagAddBlockedProp ==
    \E prop \in RagProps :
        /\ steps < MaxOps /\ steps' = steps + 1
        /\ op' = "add_blocked_prop" /\ arg' = prop /\ ret' = NoneRecord
        /\ blocked_props' = IF prop \in Elems(blocked_props) THEN blocked_props
                            ELSE Append(blocked_props, prop)
        /\ UNCHANGED <<scene_context, recent_topics, seen_facts, current_triggers,
                       dedupe_enabled, enabled, shown, directorVars>>

\* RAGManager.set_enabled
RagSetEnabled ==
    \E flag \in BOOLEAN :
        /\ steps < MaxOps /\ steps' = steps + 1
        /\ op' = "set_enabled" /\ arg' = flag /\ ret' = NoneRecord
        /\ enabled' = flag
        /\ UNCHANGED <<scene_context, blocked_props, recent_topics, seen_facts,
                       current_triggers, dedupe_enabled, shown, directorVars>>

\* SessionRAG.add_topic: the last three topics are kept
add_topic(topics, topic) ==
    IF topic = <<>> \/ topic \in Elems(topics) THEN topics
    ELSE LET added == Append(topics, topic)
         IN  IF Len(added) > 3 THEN Tail(added) ELSE added

\* RAGManager.add_topic
RagAddTopic ==
    \E topic \in RagTopics \cup {<<>>} :
        /\ steps < MaxOps /\ steps' = steps + 1
        /\ op' = "add_topic" /\ arg' = topic /\ ret' = NoneRecord
        /\ recent_topics' = add_topic(recent_topics, topic)
        /\ UNCHANGED <<scene_context, blocked_props, seen_facts, current_triggers,
                       dedupe_enabled, enabled, shown, directorVars>>

\* RAGManager.search
RagSearch ==
    /\ steps < MaxOps /\ steps' = steps + 1
    /\ \E speaker \in RagSpeakers, response_text \in RagTexts, opts \in SearchOptions :
      \E out \in {IF enabled
                   THEN RAGManager_search(PersonaConfig, scene_context, blocked_props,
                                          recent_topics, seen_facts, dedupe_enabled,
                                          speaker, response_text,
                                          opts.max_facts, opts.force_all)
                   ELSE search_disabled(seen_facts)} :
        LET call == [speaker |-> speaker, response_text |-> response_text,
                     max_facts |-> opts.max_facts, force_all |-> opts.force_all]
            facts == out.result.facts
            given == {<<speaker, facts[k].source, facts[k].content>> : k \in 1..Len(facts)}
            repeats == op = "search" /\ arg = call
        IN  /\ op' = "search" /\ arg' = call /\ ret' = out.result
            /\ current_triggers' = out.triggers
            /\ seen_facts' = out.seen
            /\ shown' = [shown EXCEPT !.all = shown.all \cup given,
                                        !.again = shown.all \cap given,
                                        !.repeats = repeats,
                                        !.previous = IF repeats THEN ret.facts ELSE <<>>]
            /\ UNCHANGED <<scene_context, blocked_props, recent_topics,
                           dedupe_enabled, enabled, directorVars>>

\* RAGManager.reset_session, SessionRAG.reset
RagResetSession ==
    /\ steps < MaxOps /\ steps' = steps + 1
    /\ op' = "reset_session" /\ arg' = NoneRecord /\ ret' = NoneRecord
    /\ \E left \in {reset_session(scene_context, blocked_props, recent_topics,
                                   seen_facts, current_triggers)} :
        /\ scene_context' = left.scene_context
        /\ blocked_props' = left.blocked_props
        /\ recent_topics' = left.recent_topics
        /\ seen_facts' = left.seen_facts
        /\ current_triggers' = left.current_triggers
    /\ shown' = Forgotten(shown, blocked_props)
    /\ UNCHANGED <<dedupe_enabled, enabled, directorVars>>

NextRAG ==
    \/ RagSetSceneContext
    \/ RagAddBlockedProp
    \/ RagAddTopic
    \/ RagSearch
    \/ RagResetSession
    \/ RagSetEnabled

SpecRAG == InitRAGSession /\ [][NextRAG]_vars

\* C9: whatever session operations came before, a search result holds at
\* most 3 facts, at most one fact of each tag, no two facts with the same
\* content, and no fact of more than 50 characters.
C9_BoundedResult ==
    op = "search" =>
        LET facts == ret.facts
        IN  /\ Len(facts) <= 3
            /\ \A i, j \in 1..Len(facts) :
                    i # j => /\ get_fact_tag(facts[i]) # get_fact_tag(facts[j])
                             /\ facts[i].content # facts[j].content
            /\ \A i \in 1..Len(facts) :
                    /\ Len(facts[i].content) <= 50
                    /\ get_fact_tag(facts[i]) \in {"SCENE", "STYLE", "REL"}

\* a search asked for up to five facts, with a scene and a topic that each
\* offer a SCENE fact, that returned three facts, one of each tag
C9_Witness ==
    /\ op = "search"
    /\ arg.max_facts = 5
    /\ scene_context # NoneRecord /\ recent_topics # <<>>
    /\ Len(ret.facts) = 3
    /\ {get_fact_tag(ret.facts[k]) : k \in 1..3} = {"SCENE", "STYLE", "REL"}

\* a search whose scene props did not fit a fact and were given as a count
C9_WitnessCount ==
    /\ op = "search"
    /\ \E k \in 1..Len(ret.facts) : ret.facts[k].confidence = 8000

\* a blocked prop occurs in the text
BlockedPropOccurs(response_text) == ContainsAny(response_text, blocked_props)

\* a term the speaker must not use occurs in the text
ProhibitedTermOccurs(speaker, response_text) ==
    /\ speaker \in DOMAIN PersonaConfig.characters
    /\ ContainsAny(response_text, PersonaConfig.characters[speaker].speech_style.prohibited)

\* the fact of the last result had been given to the speaker before
ShownAgain(fact) == <<arg.speaker, fact.source, fact.content>> \in shown.again

\* the one ground on which a fact may be given again
Triggered(fact) ==
    \/ get_fact_tag(fact) = "SCENE" /\ BlockedPropOccurs(arg.response_text)
    \/ get_fact_tag(fact) = "STYLE" /\ ProhibitedTermOccurs(arg.speaker, arg.response_text)

DedupHolds ==
    \A k \in 1..Len(ret.facts) : ShownAgain(ret.facts[k]) => Triggered(ret.facts[k])

\* the last search repeated the one before it (same speaker, text and
\* options, no operation in between) and nothing in the text triggers
RepeatedSearch ==
    /\ shown.repeats
    /\ ~BlockedPropOccurs(arg.response_text)
    /\ ~ProhibitedTermOccurs(arg.speaker, arg.response_text)

RepeatGivesLess ==
    /\ Len(ret.facts) <= Len(shown.previous)
    /\ \A i \in 1..Len(ret.facts), j \in 1..Len(shown.previous) :
            get_fact_id(ret.facts[i]) # get_fact_id(shown.previous[j])

\* C10 as stated: a fact once returned to a speaker is not returned to them
\* again in the session unless its tag is SCENE and a blocked prop occurs in
\* the text, or its tag is STYLE and a prohibited term occurs in the text;
\* a repeated, non-triggering search returns no more facts and none of the
\* same facts.
C10_AsStated ==
    op = "search" =>
        /\ DedupHolds
        /\ RepeatedSearch => RepeatGivesLess

\* C10 (amended): the same, for a manager built with dedupe_enabled=True
\* and a search that does not pass force_all=True.
C10_SessionDedup ==
    (op = "search" /\ dedupe_enabled /\ ~arg.force_all) =>
        /\ DedupHolds
        /\ RepeatedSearch => RepeatGivesLess

\* a STYLE fact given again because a prohibited term occurs in the text,
\* in a search that withheld a persona fact the speaker had been given
C10_Witness ==
    /\ op = "search" /\ dedupe_enabled /\ ~arg.force_all
    /\ \E k \in 1..Len(ret.facts) :
            ShownAgain(ret.facts[k]) /\ get_fact_tag(ret.facts[k]) = "STYLE"
    /\ \E key \in shown.all :
            /\ key[1] = arg.speaker /\ key[2] = "persona"
            /\ \A k \in 1..Len(ret.facts) : ret.facts[k].content # key[3]

\* a repeated, non-triggering search that returned fewer facts than the
\* search before it
C10_WitnessRepeat ==
    /\ op = "search" /\ dedupe_enabled /\ ~arg.force_all
    /\ RepeatedSearch
    /\ shown.previous # <<>>
    /\ Len(ret.facts) < Len(shown.previous)

\* the terms the persona rules forbid the speaker
ProhibitedTerms(speaker) ==
    IF speaker \in DOMAIN PersonaConfig.characters
    THEN PersonaConfig.characters[speaker].speech_style.prohibited ELSE <<>>

\* a priority-1 fact of the tag that names one of the words found in the text
NamesHit(fact, tag, words, response_text) ==
    /\ fact.priority = 1
    /\ get_fact_tag(fact) = tag
    /\ \E w \in Elems(words) : Contains(response_text, w) /\ Contains(fact.content, w)

\* the result of the last search holds such a fact
ResultNames(tag, words) ==
    \E k \in 1..Len(ret.facts) : NamesHit(ret.facts[k], tag, words, arg.response_text)

\* a blocked prop whose fact fits in 50 characters occurs in the text, and
\* no blocked prop found in the text holds 使わない, 呼ぶ or 話し方, the
\* patterns that TAG_MAPPING tries before Scene
PlainBlockedPropOccurs(response_text) ==
    /\ \E prop \in Elems(blocked_props) : Contains(response_text, prop) /\ Len(prop) <= 35
    /\ \A prop \in Elems(blocked_props) :
            Contains(response_text, prop) => \A i \in 1..3 : ~Contains(prop, TAG_MAPPING[i][1])

-----------------------------------------------------------------------------
(* director_hybrid.py: the static suite first, then the LLM strategy, and  *)
(* the verdicts merged                                                     *)

\* the arguments DirectorHybrid.__init__ keeps (threshold_config goes to
\* its DirectorLLM)
HybridOptions(config, skip, rag, inject) ==
    [threshold_config |-> config, skip_llm_on_static_retry |-> skip,
     rag_enabled |-> rag, inject_enabled |-> inject]

\* `if text:` on an Optional[str]
Truthy(text) == text # None /\ text # <<>>

\* s.split(p)[-1]: what follows the last p in s, all of s when there is none
SplitLast(s, p) ==
    LET at == {i \in 0..(Len(s) - Len(p)) : StartsAt(s, i, p)}
    IN  IF at = {} THEN s
        ELSE From(s, (CHOOSE i \in at : \A j \in at : j <= i) + Len(p))

\* the elements of xs in the order of their first occurrence
Distinct(xs) ==
    LET D[i \in 0..Len(xs)] ==
            IF i = 0 THEN <<>>
            ELSE IF xs[i] \in Elems(D[i - 1]) THEN D[i - 1] ELSE Append(D[i - 1], xs[i])
    IN  D[Len(xs)]

\* the lists xss[1], xss[2], ... one after the other
Flatten(xss) ==
    LET F[i \in 0..Len(xss)] == IF i = 0 THEN <<>> ELSE F[i - 1] \o xss[i]
    IN  F[Len(xss)]

\* RAGManager.to_log_entry: the facts of a result as RAGFactEntry
to_log_entry(result) ==
    [k \in 1..Len(result.facts) |->
        [tag |-> get_fact_tag(result.facts[k]),
         text |-> result.facts[k].content,
         source |-> result.facts[k].source,
         fact_id |-> get_fact_id(result.facts[k])]]

\* DirectorHybrid._search_rag: the RAGLogEntry (NoneRecord without RAG), and
\* the triggers and seen facts the search leaves.  list(set(triggered_by))
\* has no fixed order and is a set here; latency_ms, a clock reading, is
\* left out.
\* (the entry built from the result of the search)
rag_log_entry(props, out) ==
    LET facts == out.result.facts
        triggered_by ==
            (IF props # <<>> THEN {"blocked_props"} ELSE {})
            \cup (IF \E k \in 1..Len(facts) :
                         Contains(facts[k].content, <<"TSUKA", "wa", "na", "_i">>)
                  THEN {"prohibited_terms"} ELSE {})
    IN  [rag_log |-> [enabled |-> TRUE,
                      triggered_by |-> triggered_by,
                      blocked_props |-> props,
                      facts |-> to_log_entry(out.result),
                      would_inject |-> props # <<>> \/ "prohibited_terms" \in triggered_by],
         triggers |-> out.triggers,
         seen |-> out.seen]

\* the text _search_rag searches with: what follows the last "Output:"
search_text(response) ==
    IF Contains(response, <<"O", "u", "t", "p", "u", "t", ":">>)
    THEN Strip(SplitLast(response, <<"O", "u", "t", "p", "u", "t", ":">>))
    ELSE response

\* DirectorHybrid._search_rag
DirectorHybrid_search_rag(o, context, props, topics, seen, triggers, dedupe_on, speaker, response) ==
    IF ~o.rag_enabled
    THEN [rag_log |-> NoneRecord, triggers |-> triggers, seen |-> seen]
    ELSE rag_log_entry(props, RAGManager_search(PersonaConfig, context, props, topics, seen, dedupe_on, speaker, search_text(response), MAX_FACT_COUNT, FALSE))

\* a summary of the last attempt alone
RAGSummary_last_attempt(attempts) ==
    LET facts == attempts[Len(attempts)].facts
    IN  [facts_count |-> Len(facts),
         sources |-> [s \in {facts[k].source : k \in 1..Len(facts)} |->
                         Cardinality({k \in 1..Len(facts) : facts[k].source = s})],
         top_tags |-> Prefix(Distinct([k \in 1..Len(facts) |-> facts[k].tag]), 3),
         used_for_attempts |-> <<1>>]

\* RAGSummary over the attempts logged so far
RAGSummary(attempts) ==
    LET facts == Flatten([i \in 1..Len(attempts) |-> attempts[i].facts])
        sources == {facts[k].source : k \in 1..Len(facts)}
        tags == Distinct([k \in 1..Len(facts) |-> facts[k].tag])
    IN  [facts_count |-> Len(facts),
         sources |-> [s \in sources |-> Cardinality({k \in 1..Len(facts) : facts[k].source = s})],
         top_tags |-> Prefix(tags, 3),
         used_for_attempts |-> [i \in 1..Len(attempts) |-> i]]

\* DirectorHybrid._attach_rag_summary
attach_rag_summary(evaluation, rag_log, attempts) ==
    IF rag_log = NoneRecord THEN evaluation
    ELSE [evaluation EXCEPT !.rag_summary = RAGSummary(attempts)]

\* a variant in which every status weighs the same
status_priority_flat(status) == 0

\* status_priority of _merge_results
status_priority(status) ==
    CASE status = PASS -> 0
      [] status = WARN -> 1
      [] status = RETRY -> 2
      [] status = MODIFY -> 3

\* DirectorHybrid._merge_results
merge_results(static, llm) ==
    LET final_status == IF status_priority(llm.status) > status_priority(static.status)
                        THEN llm.status ELSE static.status
        reason_parts == (IF Truthy(static.reason) THEN << <<"[Static] ">> \o static.reason >> ELSE <<>>)
                        \o (IF Truthy(llm.reason) THEN << <<"[LLM] ">> \o llm.reason >> ELSE <<>>)
    IN  DirectorEvaluation(final_status,
                           Join(<<" ">>, reason_parts),
                           IF Truthy(llm.suggestion) THEN llm.suggestion ELSE static.suggestion,
                           static.checks_passed \o llm.checks_passed,
                           static.checks_failed \o llm.checks_failed,
                           llm.llm_score)

\* a variant of the fallback that reports the LLM check nowhere
static_fallback_silent(static_result, error) == static_result

\* the Evaluation evaluate_response builds in `except Exception as e`
static_fallback(static_result, error) ==
    DirectorEvaluation(static_result.status,
                       static_result.reason \o <<" [LLM unavailable: ">> \o error \o <<"]">>,
                       static_result.suggestion,
                       static_result.checks_passed,
                       static_result.checks_failed \o <<"llm_evaluation">>,
                       NoneRecord)

\* a variant that never returns before the LLM strategy ran
short_circuits_never(o, static_result) == FALSE

\* `static_result.status == RETRY and self.skip_llm_on_static_retry`
short_circuits(o, static_result) ==
    static_result.status = RETRY /\ o.skip_llm_on_static_retry

\* DirectorHybrid.evaluate_response from its short circuit on, given the
\* static verdict.  llm is what the LLM strategy does when it is called:
\* DirectorLLM.evaluate_response on the reply of generate, or (llm.raises)
\* an llm_director that raises llm.error, after calling generate or not
\* (llm.called).  The Evaluation before the RAG summary is attached, and
\* the calls made of the LLM strategy (the prompts it gave generate,
\* whether it raised).
\* (on what the LLM strategy returned or raised)
after_llm(o, static_result, llm, llm_result, prompt) ==
    LET call == [generate |-> IF llm.raises /\ ~llm.called THEN <<>> ELSE <<prompt>>,
                 raised |-> llm_result.raised]
    IN  IF short_circuits(o, static_result)
        THEN [value |-> static_result, llm_calls |-> <<>>]
        ELSE IF llm_result.raised
        THEN [value |-> static_fallback(static_result, llm_result.error),
              llm_calls |-> <<call>>]
        ELSE [value |-> merge_results(static_result, llm_result.value),
              llm_calls |-> <<call>>]

\* the LLM strategy asked
ask_llm(o, llm, err, speaker, response, topic, history, turn_number) ==
    IF llm.raises THEN [raised |-> TRUE, error |-> llm.error]
    ELSE DirectorLLM_evaluate_response(o.threshold_config, llm.reply, err, speaker, response, topic, history, turn_number)

\* DirectorHybrid.evaluate_response after the static suite
evaluate_after_static(o, static_result, llm, err, speaker, response, topic, history, turn_number) ==
    after_llm(o, static_result, llm,
              ask_llm(o, llm, err, speaker, response, topic, history, turn_number),
              build_evaluation_prompt(speaker, extract_output(response), topic, history))

-----------------------------------------------------------------------------
(* _merge_results on its own: every pair of statuses, with and without a   *)
(* reason and a suggestion on either side                                  *)

\* what the static side can hand to the merge
StaticEvaluations ==
    { DirectorEvaluation(status, reason, suggestion,
                         <<"thought_check">>, IF status = RETRY THEN <<"tone_check">> ELSE <<>>,
                         NoneRecord) :
        status \in DirectorStatus,
        reason \in {<<>>, <<"OK">>},
        suggestion \in {None, <<"suggest: improve next turn">>} }

\* what the LLM side can hand to the merge
LlmEvaluations ==
    { DirectorEvaluation(status, reason, suggestion,
                         IF status # RETRY THEN <<"llm_evaluation">> ELSE <<>>,
                         IF status = RETRY THEN <<"llm_evaluation">> ELSE <<>>,
                         NoneRecord) :
        status \in DirectorStatus,
        reason \in {<<>>, <<"[", "WARN", "]">>},
        suggestion \in {None, <<>>, <<"suggest: naturalness">>} }

InitMerge ==
    /\ op = "input"
    /\ arg \in [static : StaticEvaluations, llm : LlmEvaluations]
    /\ ret = NoneRecord
    /\ InitRAG /\ InitDirectors

\* DirectorHybrid._merge_results
MergeResults ==
    /\ op = "input"
    /\ op' = "_merge_results"
    /\ ret' = merge_results(arg.static, arg.llm)
    /\ UNCHANGED <<arg, ragVars, directorVars>>

NextMerge == MergeResults

SpecMerge == InitMerge /\ [][NextMerge]_vars

\* the pairs (a, b) of statuses with a less severe than b on
\* PASS < WARN < RETRY < MODIFY
LessSevere ==
    { <<PASS, WARN>>, <<PASS, RETRY>>, <<PASS, MODIFY>>,
      <<WARN, RETRY>>, <<WARN, MODIFY>>, <<RETRY, MODIFY>> }

\* C3: the merged status is one of the two input statuses and is not less
\* severe than either of them on PASS < WARN < RETRY < MODIFY, so it is the
\* more severe of the two, MODIFY on either side included.
C3_MergedStatus ==
    op = "_merge_results" =>
        /\ ret.status \in {arg.static.status, arg.llm.status}
        /\ <<ret.status, arg.static.status>> \notin LessSevere
        /\ <<ret.status, arg.llm.status>> \notin LessSevere

\* the LLM side says MODIFY against a static RETRY, and MODIFY it is
C3_Witness ==
    /\ op = "_merge_results"
    /\ arg.static.status = RETRY /\ arg.llm.status = MODIFY
    /\ ret.status = MODIFY

\* the static side says MODIFY against an LLM RETRY
C3_WitnessStatic ==
    /\ op = "_merge_results"
    /\ arg.static.status = MODIFY /\ arg.llm.status = RETRY
    /\ ret.status = MODIFY

-----------------------------------------------------------------------------
(* what llm_client.generate can do when it is called                       *)

\* generate raises (a timeout)
ReplyRaises ==
    [raises |-> TRUE, error |-> <<"t", "i", "m", "e", "o", "u", "t">>]

\* prose, no object: here is my evaluation
ReplyProse ==
    [raises |-> FALSE, text |-> <<Prose>>]

\* prose and an empty object: here is my evaluation {}
ReplyEmptyBraces ==
    [raises |-> FALSE, text |-> <<Prose, Brace("{"), Brace("}")>>]

\* braces around prose: { here is my evaluation }
ReplyBracesAroundProse ==
    [raises |-> FALSE, text |-> <<Brace("{"), Prose, Brace("}")>>]

\* every axis and the overall score 0.8: {"character_consistency": 0.8, "topic_novelty": 0.8, "relationship_quality": 0.8, "naturalness": 0.8, "concreteness": 0.8, "overall_score": 0.8}
ReplyGood ==
    [raises |-> FALSE, text |-> <<Brace("{"), Field("character_consistency", "num", 8000),
    Field("topic_novelty", "num", 8000), Field("relationship_quality", "num", 8000),
    Field("naturalness", "num", 8000), Field("concreteness", "num", 8000),
    Field("overall_score", "num", 8000), Brace("}")>>]

\* character consistency 0.2, no overall score: {"character_consistency": 0.2, "topic_novelty": 0.8, "relationship_quality": 0.8, "naturalness": 0.8, "concreteness": 0.8}
ReplyLowCharacter ==
    [raises |-> FALSE, text |-> <<Brace("{"), Field("character_consistency", "num", 2000),
    Field("topic_novelty", "num", 8000), Field("relationship_quality", "num", 8000),
    Field("naturalness", "num", 8000), Field("concreteness", "num", 8000), Brace("}")>>]

\* every axis and the overall score 0.5, four issues: {"character_consistency": 0.5, "topic_novelty": 0.5, "relationship_quality": 0.5, "naturalness": 0.5, "concreteness": 0.5, "overall_score": 0.5, "issues": ["flat", "vague", "short", "dull"]}
ReplyMiddling ==
    [raises |-> FALSE, text |-> <<Brace("{"), Field("character_consistency", "num", 5000),
    Field("topic_novelty", "num", 5000), Field("relationship_quality", "num", 5000),
    Field("naturalness", "num", 5000), Field("concreteness", "num", 5000),
    Field("overall_score", "num", 5000), Field("issues", "list", <<<<"f", "l", "a", "t">>,
    <<"v", "a", "g", "u", "e">>, <<"s", "h", "o", "r", "t">>, <<"d", "u", "l", "l">>>>),
    Brace("}")>>]

\* values out of range, a string and a null: {"character_consistency": 1.2, "topic_novelty": "high", "relationship_quality": null, "naturalness": -0.1, "concreteness": 0.8, "overall_score": 1.2}
ReplyOutOfRange ==
    [raises |-> FALSE, text |-> <<Brace("{"), Field("character_consistency", "num", 12000),
    Field("topic_novelty", "text", 0), Field("relationship_quality", "null", 0),
    Field("naturalness", "num", -1000), Field("concreteness", "num", 8000),
    Field("overall_score", "num", 12000), Brace("}")>>]

\* an object without any axis: {"note": "x"}
ReplyOtherMember ==
    [raises |-> FALSE, text |-> <<Brace("{"), Field("note", "text", 0), Brace("}")>>]

\* issues is a number: {"character_consistency": 0.8, "topic_novelty": 0.8, "relationship_quality": 0.8, "naturalness": 0.8, "concreteness": 0.8, "overall_score": 0.8, "issues": 5}
ReplyIssuesANumber ==
    [raises |-> FALSE, text |-> <<Brace("{"), Field("character_consistency", "num", 8000),
    Field("topic_novelty", "num", 8000), Field("relationship_quality", "num", 8000),
    Field("naturalness", "num", 8000), Field("concreteness", "num", 8000),
    Field("overall_score", "num", 8000), Field("issues", "num", 50000), Brace("}")>>]

\* an object cut short inside another: here is my evaluation {{"character_consistency": 0.2, "topic_novelty": 0.2, "relationship_quality": 0.2, "naturalness": 0.2, "concreteness": 0.2}
ReplyNested ==
    [raises |-> FALSE, text |-> <<Prose, Brace("{"), Brace("{"),
    Field("character_consistency", "num", 2000), Field("topic_novelty", "num", 2000),
    Field("relationship_quality", "num", 2000), Field("naturalness", "num", 2000),
    Field("concreteness", "num", 2000), Brace("}")>>]

\* every axis 0.4, one issue: {"character_consistency": 0.4, "topic_novelty": 0.4, "relationship_quality": 0.4, "naturalness": 0.4, "concreteness": 0.4, "issues": ["flat"]}
ReplyWeakAll ==
    [raises |-> FALSE, text |-> <<Brace("{"), Field("character_consistency", "num", 4000),
    Field("topic_novelty", "num", 4000), Field("relationship_quality", "num", 4000),
    Field("naturalness", "num", 4000), Field("concreteness", "num", 4000), Field("issues",
    "list", <<<<"f", "l", "a", "t">>>>), Brace("}")>>]

\* relationship quality 0.2, overall 0.7: {"character_consistency": 0.8, "topic_novelty": 0.6, "relationship_quality": 0.2, "naturalness": 0.6, "concreteness": 0.6, "overall_score": 0.7}
ReplyLowRelationship ==
    [raises |-> FALSE, text |-> <<Brace("{"), Field("character_consistency", "num", 8000),
    Field("topic_novelty", "num", 6000), Field("relationship_quality", "num", 2000),
    Field("naturalness", "num", 6000), Field("concreteness", "num", 6000),
    Field("overall_score", "num", 7000), Brace("}")>>]

\* an object that is not closed: {"character_consistency": 0.8
ReplyUnclosed ==
    [raises |-> FALSE, text |-> <<Brace("{"), Field("character_consistency", "num", 8000)>>]

Replies ==
    { ReplyRaises,
      ReplyProse,
      ReplyEmptyBraces,
      ReplyBracesAroundProse,
      ReplyGood,
      ReplyLowCharacter,
      ReplyMiddling,
      ReplyOutOfRange,
      ReplyOtherMember,
      ReplyIssuesANumber,
      ReplyNested,
      ReplyWeakAll,
      ReplyLowRelationship,
      ReplyUnclosed }

-----------------------------------------------------------------------------
(* DirectorHybrid as a state machine: MaxCalls calls of its operations,    *)
(* in any order                                                            *)

MaxCalls == 2

\* the default thresholds, and a stricter floor for character consistency
StrictCharacterConfig == ThresholdConfig(4000, 6000, 3000, 6000)

\* DirectorHybrid(llm_client, threshold_config, skip_llm_on_static_retry,
\* rag_enabled)
HybridOptionSets ==
    { HybridOptions(config, skip, rag, FALSE) :
        config \in {DefaultThresholdConfig, StrictCharacterConfig},
        skip \in BOOLEAN, rag \in BOOLEAN }

HybridSpeakers == {YANA, AYU}

\* a full Thought and a plain line, polite speech (a RETRY for やな), or four
\* exclamation marks (a WARN); and a plain line without a Thought
HybridResponses ==
    { <<"T", "h", "o", "u", "g", "h", "t", ":", " ", "(", "Y", "a", "n", "a", ":", " ", "_a", "yu", "to", "HANA", "su", "no", "TANOSHI", "shi", "_i", ")", "\n">> \o output :
        output \in { <<"O", "u", "t", "p", "u", "t", ":", " ", "<[>", "_o", "ha", "yo", "_u", "<]>">>,
                     <<"O", "u", "t", "p", "u", "t", ":", " ", "<[>", "_o", "ha", "yo", "_u", "go", "za", "_i", "ma", "su", "<]>">>,
                     <<"O", "u", "t", "p", "u", "t", ":", " ", "_a", "<!>", "_i", "<!>", "_u", "<!>", "_e", "<!>">> } }
    \cup { <<"O", "u", "t", "p", "u", "t", ":", " ", "<[>", "_o", "ha", "yo", "_u", "<]>">> }

\* what the LLM strategy does when the hybrid calls it: DirectorLLM on a
\* reply of generate, or an llm_director that raises (before or after it
\* called generate)
HybridLLMs ==
    { [raises |-> FALSE, called |-> TRUE, error |-> <<>>, reply |-> reply] :
        reply \in {ReplyGood, ReplyLowCharacter, ReplyMiddling, ReplyRaises} }
    \cup { [raises |-> TRUE, called |-> called,
            error |-> <<"c", "o", "n", "n", "e", "c", "t", "i", "o", "n">>,
            reply |-> ReplyRaises] : called \in BOOLEAN }

InitHybrid ==
    /\ op = "init" /\ arg = NoneRecord /\ ret = NoneRecord
    /\ InitRAG
    /\ \E o \in HybridOptionSets : InitDirectorsWith(o)

\* DirectorHybrid.evaluate_response: the RAG search, the static suite, the
\* LLM strategy unless short-circuited, and the RAG summary.  arg keeps,
\* with the arguments, what the LLM strategy was going to do.
HybridEvaluate ==
    /\ steps < MaxCalls /\ steps' = steps + 1
    /\ \E speaker \in HybridSpeakers, response \in HybridResponses :
       \E rag \in {DirectorHybrid_search_rag(options, scene_context, blocked_props,
                                             recent_topics, seen_facts, current_triggers,
                                             dedupe_enabled, speaker, response)},
          static_result \in {DirectorMinimal_evaluate_response(speaker, response, <<>>, <<>>, 1)} :
       \E llm \in HybridLLMs, err \in RoundingErrors :
       \E out \in {evaluate_after_static(options, static_result, llm, err,
                                         speaker, response, <<>>, <<>>, 1)} :
        LET logged == IF rag.rag_log = NoneRecord THEN <<>> ELSE <<rag.rag_log>>
            given == UNION {{<<speaker, logged[i].facts[k].source, logged[i].facts[k].text>> :
                                k \in 1..Len(logged[i].facts)} : i \in 1..Len(logged)}
        IN  /\ op' = "evaluate_response"
            /\ arg' = [speaker |-> speaker, response |-> response, llm |-> llm]
            /\ ret' = attach_rag_summary(out.value, rag.rag_log, rag_attempts \o logged)
            /\ llm_calls' = out.llm_calls
            /\ rag_attempts' = rag_attempts \o logged
            /\ current_triggers' = rag.triggers
            /\ seen_facts' = rag.seen
            /\ shown' = IF logged = <<>> THEN shown
                        ELSE [shown EXCEPT !.all = shown.all \cup given,
                                           !.again = shown.all \cap given,
                                           !.repeats = FALSE, !.previous = <<>>]
            /\ UNCHANGED <<scene_context, blocked_props, recent_topics, dedupe_enabled, enabled,
                           options, last_injection_decision, llm_history>>

\* DirectorHybrid.commit_evaluation with the response and the Evaluation of
\* the call before: DirectorLLM.commit_evaluation keeps them
HybridCommit ==
    /\ op = "evaluate_response"
    /\ steps < MaxCalls /\ steps' = steps + 1
    /\ op' = "commit_evaluation"
    /\ llm_history' = Append(llm_history, [response |-> arg.response, evaluation |-> ret])
    /\ llm_calls' = <<>>
    /\ UNCHANGED <<arg, ret, sessionVars, options, rag_attempts, last_injection_decision>>

\* DirectorHybrid.reset_for_new_session
HybridReset ==
    /\ steps < MaxCalls /\ steps' = steps + 1
    /\ op' = "reset_for_new_session" /\ arg' = NoneRecord /\ ret' = NoneRecord
    /\ llm_history' = <<>>
    /\ rag_attempts' = <<>>
    /\ llm_calls' = <<>>
    /\ IF options.rag_enabled
       THEN \* RAGManager.reset_session
            /\ \E left \in {reset_session(scene_context, blocked_props, recent_topics,
                                           seen_facts, current_triggers)} :
                /\ scene_context' = left.scene_context
                /\ blocked_props' = left.blocked_props
                /\ recent_topics' = left.recent_topics
                /\ seen_facts' = left.seen_facts
                /\ current_triggers' = left.current_triggers
            /\ shown' = Forgotten(shown, blocked_props)
            /\ UNCHANGED <<dedupe_enabled, enabled>>
       ELSE UNCHANGED sessionVars
    /\ UNCHANGED <<options, last_injection_decision>>

\* DirectorHybrid.clear_rag_attempts
HybridClearRagAttempts ==
    /\ steps < MaxCalls /\ steps' = steps + 1
    /\ op' = "clear_rag_attempts" /\ arg' = NoneRecord /\ ret' = NoneRecord
    /\ rag_attempts' = <<>>
    /\ llm_calls' = <<>>
    /\ UNCHANGED <<sessionVars, options, last_injection_decision, llm_history>>

\* rag_manager.add_blocked_prop, of a DirectorHybrid that has a RAGManager
HybridAddBlockedProp ==
    \E prop \in RagProps :
        /\ options.rag_enabled
        /\ steps < MaxCalls /\ steps' = steps + 1
        /\ op' = "add_blocked_prop" /\ arg' = prop /\ ret' = NoneRecord
        /\ blocked_props' = IF prop \in Elems(blocked_props) THEN blocked_props
                            ELSE Append(blocked_props, prop)
        /\ llm_calls' = <<>>
        /\ UNCHANGED <<scene_context, recent_topics, seen_facts, current_triggers,
                       dedupe_enabled, enabled, shown, options, rag_attempts,
                       last_injection_decision, llm_history>>

NextHybrid ==
    \/ HybridEvaluate
    \/ HybridCommit
    \/ HybridReset
    \/ HybridClearRagAttempts
    \/ HybridAddBlockedProp

SpecHybrid == InitHybrid /\ [][NextHybrid]_vars

\* the static verdict on the arguments of the last evaluate_response
StaticVerdict ==
    DirectorMinimal_evaluate_response(arg.speaker, arg.response, <<>>, <<>>, 1)

\* C2: with skip_llm_on_static_retry, an evaluate_response whose static
\* verdict is RETRY makes no call of the LLM strategy, so generate is not
\* invoked, and returns RETRY.
C2_StaticRetrySkipsLLM ==
    (/\ op = "evaluate_response"
     /\ options.skip_llm_on_static_retry
     /\ StaticVerdict.status = RETRY)
    => /\ \A i \in 1..Len(llm_calls) : llm_calls[i].generate = <<>>
       /\ llm_calls = <<>>
       /\ ret.status = RETRY

\* やな answers in polite speech and the LLM would have been asked
C2_Witness ==
    /\ op = "evaluate_response"
    /\ options.skip_llm_on_static_retry
    /\ StaticVerdict.status = RETRY
    /\ ~arg.llm.raises /\ arg.llm.reply = ReplyGood
    /\ llm_calls = <<>> /\ ret.status = RETRY

\* without the short circuit the same utterance does reach generate
C2_WitnessAsked ==
    /\ op = "evaluate_response"
    /\ ~options.skip_llm_on_static_retry
    /\ StaticVerdict.status = RETRY
    /\ Len(llm_calls) = 1 /\ Len(llm_calls[1].generate) = 1

\* the LLM strategy raised inside the last evaluate_response
LLMStrategyRaised ==
    /\ op = "evaluate_response"
    /\ \E i \in 1..Len(llm_calls) : llm_calls[i].raised

\* C5: when the LLM strategy raises inside evaluate_response, the call
\* returns an Evaluation with the status, the suggestion and the
\* checks_passed of the static verdict, its reason followed by the
\* unavailability note, and its checks_failed followed by "llm_evaluation".
C5_FallsBackToStatic ==
    LLMStrategyRaised =>
        /\ ret.status = StaticVerdict.status
        /\ ret.suggestion = StaticVerdict.suggestion
        /\ ret.reason = StaticVerdict.reason \o <<" [LLM unavailable: ">>
                        \o arg.llm.error \o <<"]">>
        /\ ret.checks_passed = StaticVerdict.checks_passed
        /\ ret.checks_failed = StaticVerdict.checks_failed \o <<"llm_evaluation">>

\* the strategy raises on an utterance the static suite warns about
C5_Witness ==
    /\ LLMStrategyRaised
    /\ StaticVerdict.status = WARN
    /\ ret.status = WARN
    /\ ret.checks_failed = <<"llm_evaluation">>

\* the strategy raises on a static RETRY that was not short-circuited
C5_WitnessRetry ==
    /\ LLMStrategyRaised
    /\ StaticVerdict.status = RETRY
    /\ Len(ret.checks_failed) = 2

-----------------------------------------------------------------------------
(* DirectorLLM as a state machine: MaxCalls calls of its operations        *)

\* DirectorLLM(llm_client, threshold_config)
LLMOptions(config) == [threshold_config |-> config]

\* a response with a Thought and an Output, and one without markers
LLMResponses ==
    { <<"T", "h", "o", "u", "g", "h", "t", ":", " ", "_u", "nn", "\n", "O", "u", "t", "p", "u", "t", ":", " ", "<[>", "_o", "ha", "yo", "_u", "<]>">>,
      <<"_o", "ha", "yo", "_u">> }

InitLLM ==
    /\ op = "init" /\ arg = NoneRecord /\ ret = NoneRecord
    /\ InitRAG
    /\ \E config \in ThresholdConfigs : InitDirectorsWith(LLMOptions(config))

\* DirectorLLM.evaluate_response; arg keeps, with the arguments, what
\* generate did
LLMEvaluate ==
    /\ steps < MaxCalls /\ steps' = steps + 1
    /\ \E speaker \in HybridSpeakers, response \in LLMResponses,
          reply \in Replies, err \in RoundingErrors :
       \E out \in {DirectorLLM_evaluate_response(options.threshold_config, reply, err,
                                                 speaker, response, <<>>, <<>>, 1)} :
        /\ op' = "evaluate_response"
        /\ arg' = [speaker |-> speaker, response |-> response, reply |-> reply]
        /\ ret' = out
        /\ llm_calls' = << [generate |-> <<build_evaluation_prompt(
                                               speaker, extract_output(response), <<>>, <<>>)>>,
                            raised |-> out.raised] >>
        /\ UNCHANGED <<sessionVars, options, rag_attempts, last_injection_decision,
                       llm_history>>

\* DirectorLLM.commit_evaluation with the response and the Evaluation of the
\* call before
LLMCommit ==
    /\ op = "evaluate_response" /\ ~ret.raised
    /\ steps < MaxCalls /\ steps' = steps + 1
    /\ op' = "commit_evaluation"
    /\ llm_history' = Append(llm_history, [response |-> arg.response, evaluation |-> ret.value])
    /\ llm_calls' = <<>>
    /\ UNCHANGED <<arg, ret, sessionVars, options, rag_attempts, last_injection_decision>>

\* DirectorLLM.reset_for_new_session
LLMReset ==
    /\ steps < MaxCalls /\ steps' = steps + 1
    /\ op' = "reset_for_new_session" /\ arg' = NoneRecord /\ ret' = NoneRecord
    /\ llm_history' = <<>>
    /\ llm_calls' = <<>>
    /\ UNCHANGED <<sessionVars, options, rag_attempts, last_injection_decision>>

NextLLM == LLMEvaluate \/ LLMCommit \/ LLMReset

SpecLLM == InitLLM /\ [][NextLLM]_vars

\* generate raised, or returned what _parse_response finds no object in
GenerationFailed ==
    /\ op = "evaluate_response"
    /\ \/ arg.reply.raises
       \/ parse_response(arg.reply.text, 0)
              = FallbackScore(<<"JSON parse error: could not extract valid JSON">>, 0)

\* an Evaluation with a status, a reason and its two lists of checks
WellFormed(evaluation) ==
    /\ evaluation.status \in DirectorStatus
    /\ evaluation.reason # None /\ evaluation.reason # <<>>
    /\ Elems(evaluation.checks_passed) \cup Elems(evaluation.checks_failed) = {"llm_evaluation"}
    /\ Elems(evaluation.checks_passed) \cap Elems(evaluation.checks_failed) = {}

\* C4: when generate raises or its output cannot be parsed,
\* DirectorLLM.evaluate_response does not raise and returns a well-formed
\* Evaluation whose status is not RETRY, whatever the thresholds, and is
\* WARN under the default thresholds.
C4_NeverRetryOnFailure ==
    GenerationFailed =>
        /\ ~ret.raised
        /\ WellFormed(ret.value)
        /\ ret.value.status # RETRY
        /\ options.threshold_config = DefaultThresholdConfig => ret.value.status = WARN

\* generate raises under a character floor of 0.6, and the all-0.5 fallback
\* score is a RETRY
C4_Witness ==
    /\ GenerationFailed
    /\ arg.reply = ReplyRaises
    /\ options.threshold_config = StrictCharacterConfig
    /\ ~ret.raised /\ WellFormed(ret.value)
    /\ ret.value.status = RETRY
    /\ ret.value.checks_failed = <<"llm_evaluation">>

\* what does hold on a failed generation: no exception, a well-formed
\* Evaluation, and WARN under the default thresholds
C4_WitnessDefault ==
    /\ GenerationFailed
    /\ arg.reply = ReplyProse
    /\ options.threshold_config = DefaultThresholdConfig
    /\ ~ret.raised /\ ret.value.status = WARN

-----------------------------------------------------------------------------
(* director_hybrid.py: get_facts_for_injection, the facts handed to the     *)
(* prompt of the next generation                                           *)

\* a variant that records the number of reasons as facts_injected
InjectionDecision_reasons_counted(would_inject, reasons, predicted, addressing, tone, facts_injected) ==
    [would_inject |-> would_inject,
     reasons |-> reasons,
     predicted_blocked_props |-> predicted,
     detected_addressing_violation |-> addressing,
     detected_tone_violation |-> tone,
     facts_injected |-> Len(reasons)]

\* InjectionDecision
InjectionDecision(would_inject, reasons, predicted, addressing, tone, facts_injected) ==
    [would_inject |-> would_inject,
     reasons |-> reasons,
     predicted_blocked_props |-> predicted,
     detected_addressing_violation |-> addressing,
     detected_tone_violation |-> tone,
     facts_injected |-> facts_injected]

\* 丁寧語, 敬語, です。, ます。, ください
TONE_VIOLATION_PATTERNS ==
    << <<"TEI", "NEI", "LANG">>, <<"KEI", "LANG">>, <<"de", "su", "<.>">>,
       <<"ma", "su", "<.>">>, <<"ku", "da", "sa", "_i">> >>

\* やなちゃん, お姉ちゃん, やな」, やなを
ADDRESSING_VIOLATION_PATTERNS ==
    << <<"ya", "na", "chi", "xya", "nn">>, <<"_o", "ANE", "chi", "xya", "nn">>,
       <<"ya", "na", "<]>">>, <<"ya", "na", "wo">> >>

\* 「{prop}」はSceneに存在しない。使用禁止。
ProactiveSceneFact(prop) ==
    [tag |-> "SCENE",
     text |-> <<"<[>">> \o prop \o <<"<]>", "ha", "S", "c", "e", "n", "e", "ni", "SON", "ZAI", "shi", "na", "_i", "<.>", "TSUKA", "USE", "KIN", "STOP", "<.>">>]

\* やなは「です/ます」禁止。崩して言う。
ToneFact ==
    [tag |-> "STYLE",
     text |-> <<"ya", "na", "ha", "<[>", "de", "su", "/", "ma", "su", "<]>", "KIN", "STOP", "<.>", "KUZU", "shi", "te", "GEN", "_u", "<.>">>]

\* あゆは「やなちゃん」禁止。代わりに「姉様」。
AddressingFact ==
    [tag |-> "STYLE",
     text |-> <<"_a", "yu", "ha", "<[>", "ya", "na", "chi", "xya", "nn", "<]>", "KIN", "STOP", "<.>", "KAWA", "wa", "ri", "ni", "<[>", "ANE", "SAMA", "<]>", "<.>">>]

\* text_to_check = response_text or topic
text_to_check(response_text, topic) ==
    IF response_text # <<>> THEN response_text ELSE topic

\* the props of the history that occur in the text, in the order of the
\* history
predicted_blocked(props, text) ==
    Filter(props, LAMBDA prop : Contains(text, prop))

has_tone_violation(speaker, topic) ==
    speaker = YANA /\ topic # <<>> /\ ContainsAny(topic, TONE_VIOLATION_PATTERNS)

has_addressing_violation(speaker, topic) ==
    speaker = AYU /\ topic # <<>> /\ ContainsAny(topic, ADDRESSING_VIOLATION_PATTERNS)

\* has_prohibited_term: a fact of the search reads 使わない
has_prohibited_term(facts) ==
    \E k \in 1..Len(facts) : Contains(facts[k].content, <<"TSUKA", "wa", "na", "_i">>)

\* the fact of the search as the dict handed out: the prohibition of
\* やなちゃん is given with its replacement
rag_fact_dict(fact) ==
    [tag |-> get_fact_tag(fact),
     text |-> IF /\ Contains(fact.content, <<"ya", "na", "chi", "xya", "nn">>)
                 /\ Contains(fact.content, <<"TSUKA", "wa", "na", "_i">>)
              THEN AddressingFact.text ELSE fact.content]

\* a selection of the first three candidates, whatever their tags
select_first_three(candidates) == Prefix(candidates, 3)

\* facts_by_tag and the selection: the first fact of SCENE, of STYLE and
\* of REL
select_by_tag(candidates) ==
    LET OfTag(tag) == Filter(candidates, LAMBDA f : f.tag = tag)
    IN  Prefix(Prefix(OfTag("SCENE"), 1) \o Prefix(OfTag("STYLE"), 1)
               \o Prefix(OfTag("REL"), 1), 3)

\* a decision that injects whatever the triggers say
injection_always(predicted, prohibited, tone, addressing, facts) ==
    LET selected == select_by_tag([k \in 1..Len(facts) |-> rag_fact_dict(facts[k])])
    IN  [value |-> selected,
         decision |-> InjectionDecision(TRUE, <<>>, predicted, addressing, tone,
                                        Len(selected))]

\* the decision and the facts once the triggers are known
injection(predicted, prohibited, tone, addressing, facts) ==
    IF ~(predicted # <<>> \/ prohibited \/ tone \/ addressing)
    THEN [value |-> <<>>,
          decision |-> InjectionDecision(FALSE, <<>>, <<>>, FALSE, FALSE, 0)]
    ELSE
    LET reasons == (IF predicted # <<>> THEN <<"predicted_blocked_props">> ELSE <<>>)
                   \o (IF prohibited THEN <<"prohibited_terms">> ELSE <<>>)
                   \o (IF tone THEN <<"tone_violation">> ELSE <<>>)
                   \o (IF addressing THEN <<"addressing_violation">> ELSE <<>>)
        candidates == [k \in 1..Len(predicted) |-> ProactiveSceneFact(predicted[k])]
                      \o (IF tone THEN <<ToneFact>> ELSE <<>>)
                      \o (IF addressing THEN <<AddressingFact>> ELSE <<>>)
                      \o [k \in 1..Len(facts) |-> rag_fact_dict(facts[k])]
        selected == select_by_tag(candidates)
    IN  [value |-> selected,
         decision |-> InjectionDecision(TRUE, reasons, predicted, addressing, tone,
                                        Len(selected))]

\* DirectorHybrid.get_facts_for_injection, result being what
\* rag_manager.search(speaker, text_to_check) returned
get_facts_for_injection(o, props, speaker, response_text, topic, result) ==
    IF ~o.inject_enabled \/ ~o.rag_enabled
    THEN [value |-> <<>>,
          decision |-> InjectionDecision(FALSE, <<>>, <<>>, FALSE, FALSE, 0)]
    ELSE injection(predicted_blocked(props, text_to_check(response_text, topic)),
                   has_prohibited_term(result.facts),
                   has_tone_violation(speaker, topic),
                   has_addressing_violation(speaker, topic),
                   result.facts)

-----------------------------------------------------------------------------
(* A session of DirectorHybrid as a state machine: MaxSession calls of      *)
(* its operations and of those of its fact store, in any order             *)

MaxSession == 3

\* DirectorHybrid(llm_client, rag_enabled, inject_enabled) with the default
\* thresholds
SessionOptionSets ==
    { HybridOptions(DefaultThresholdConfig, TRUE, rag, inject) :
        rag \in BOOLEAN, inject \in BOOLEAN }

SessionSpeakers == {YANA, AYU}

\* グラス, 本
SessionProps == { <<"Gu", "Ra", "Su">>, <<"HON">> }

\* a full Thought, and おはよう or グラスです said
SessionResponses ==
    { <<"T", "h", "o", "u", "g", "h", "t", ":", " ", "(", "Y", "a", "n", "a", ":", " ", "_a", "yu", "to", "HANA", "su", "no", "TANOSHI", "shi", "_i", ")", "\n">> \o output :
        output \in { <<"O", "u", "t", "p", "u", "t", ":", " ", "<[>", "_o", "ha", "yo", "_u", "<]>">>,
                     <<"O", "u", "t", "p", "u", "t", ":", " ", "<[>", "Gu", "Ra", "Su", "de", "su", "<]>">> } }

\* response_text of get_facts_for_injection: none, おはよう, グラスです
InjectTexts ==
    { <<>>, <<"_o", "ha", "yo", "_u">>, <<"Gu", "Ra", "Su", "de", "su">> }

\* topic of get_facts_for_injection: none, 本とグラス, 敬語で話して,
\* やなちゃんと呼んで
InjectTopics ==
    { <<>>,
      <<"HON", "to", "Gu", "Ra", "Su">>,
      <<"KEI", "LANG", "de", "HANA", "shi", "te">>,
      <<"ya", "na", "chi", "xya", "nn", "to", "YOBU", "nn", "de">> }

InitSession ==
    /\ op = "init" /\ arg = NoneRecord /\ ret = NoneRecord
    /\ InitRAG
    /\ \E o \in SessionOptionSets : InitDirectorsWith(o)

\* DirectorHybrid.evaluate_response, the LLM answering ReplyGood
SessionEvaluate ==
    /\ steps < MaxSession /\ steps' = steps + 1
    /\ \E speaker \in SessionSpeakers, response \in SessionResponses :
       \E rag \in {DirectorHybrid_search_rag(options, scene_context, blocked_props,
                                             recent_topics, seen_facts, current_triggers,
                                             dedupe_enabled, speaker, response)},
          static_result \in {DirectorMinimal_evaluate_response(speaker, response, <<>>, <<>>, 1)},
          llm \in {[raises |-> FALSE, called |-> TRUE, error |-> <<>>, reply |-> ReplyGood]} :
       \E out \in {evaluate_after_static(options, static_result, llm, 0,
                                         speaker, response, <<>>, <<>>, 1)},
          logged \in {IF rag.rag_log = NoneRecord THEN <<>> ELSE <<rag.rag_log>>} :
        LET given == UNION {{<<speaker, logged[i].facts[k].source, logged[i].facts[k].text>> :
                                k \in 1..Len(logged[i].facts)} : i \in 1..Len(logged)}
        IN  /\ op' = "evaluate_response"
            /\ arg' = [speaker |-> speaker, response |-> response, llm |-> llm]
            /\ ret' = attach_rag_summary(out.value, rag.rag_log, rag_attempts \o logged)
            /\ llm_calls' = out.llm_calls
            /\ rag_attempts' = rag_attempts \o logged
            /\ current_triggers' = rag.triggers
            /\ seen_facts' = rag.seen
            /\ shown' = IF logged = <<>> THEN shown
                        ELSE [shown EXCEPT !.all = shown.all \cup given,
                                           !.again = shown.all \cap given,
                                           !.repeats = FALSE, !.previous = <<>>,
                                           !.by = shown.by \cup
                                               {<<key, "evaluate_response">> : key \in given \ shown.all}]
            /\ UNCHANGED <<scene_context, blocked_props, recent_topics, dedupe_enabled, enabled,
                           options, last_injection_decision, llm_history>>

\* DirectorHybrid.get_facts_for_injection
SessionInject ==
    /\ steps < MaxSession /\ steps' = steps + 1
    /\ \E speaker \in SessionSpeakers, response_text \in InjectTexts, topic \in InjectTopics :
       \E searches \in {options.inject_enabled /\ options.rag_enabled} :
       \E found \in {IF searches
                     THEN RAGManager_search(PersonaConfig, scene_context, blocked_props,
                                            recent_topics, seen_facts, dedupe_enabled,
                                            speaker, text_to_check(response_text, topic),
                                            MAX_FACT_COUNT, FALSE)
                     ELSE [result |-> RAGResult(<<>>), triggers |-> current_triggers,
                           seen |-> seen_facts]} :
       \E out \in {get_facts_for_injection(options, blocked_props, speaker,
                                           response_text, topic, found.result)} :
        LET facts == found.result.facts
            given == {<<speaker, facts[k].source, facts[k].content>> : k \in 1..Len(facts)}
        IN  /\ op' = "get_facts_for_injection"
            /\ arg' = [speaker |-> speaker, response_text |-> response_text, topic |-> topic]
            /\ ret' = out.value
            /\ last_injection_decision' = out.decision
            /\ llm_calls' = <<>>
            /\ current_triggers' = found.triggers
            /\ seen_facts' = found.seen
            /\ shown' = IF ~searches THEN shown
                        ELSE [shown EXCEPT !.all = shown.all \cup given,
                                           !.again = shown.all \cap given,
                                           !.repeats = FALSE, !.previous = <<>>,
                                           !.by = shown.by \cup
                                               {<<key, "get_facts_for_injection">> : key \in given \ shown.all}]
            /\ UNCHANGED <<scene_context, blocked_props, recent_topics, dedupe_enabled, enabled,
                           options, rag_attempts, llm_history>>

\* DirectorHybrid.commit_evaluation
SessionCommit ==
    /\ op = "evaluate_response"
    /\ steps < MaxSession /\ steps' = steps + 1
    /\ op' = "commit_evaluation"
    /\ llm_history' = Append(llm_history, [response |-> arg.response, evaluation |-> ret])
    /\ llm_calls' = <<>>
    /\ UNCHANGED <<arg, ret, sessionVars, options, rag_attempts, last_injection_decision>>

\* DirectorHybrid.reset_for_new_session
SessionReset ==
    /\ steps < MaxSession /\ steps' = steps + 1
    /\ op' = "reset_for_new_session" /\ arg' = NoneRecord /\ ret' = NoneRecord
    /\ llm_history' = <<>>
    /\ rag_attempts' = <<>>
    /\ llm_calls' = <<>>
    /\ IF options.rag_enabled
       THEN /\ \E left \in {reset_session(scene_context, blocked_props, recent_topics,
                                           seen_facts, current_triggers)} :
                /\ scene_context' = left.scene_context
                /\ blocked_props' = left.blocked_props
                /\ recent_topics' = left.recent_topics
                /\ seen_facts' = left.seen_facts
                /\ current_triggers' = left.current_triggers
            /\ shown' = Forgotten(shown, blocked_props)
            /\ UNCHANGED <<dedupe_enabled, enabled>>
       ELSE UNCHANGED sessionVars
    /\ UNCHANGED <<options, last_injection_decision>>

\* rag_manager.add_blocked_prop
SessionAddBlockedProp ==
    /\ options.rag_enabled
    /\ steps < MaxSession /\ steps' = steps + 1
    /\ \E prop \in SessionProps :
        /\ op' = "add_blocked_prop" /\ arg' = prop /\ ret' = NoneRecord
        /\ blocked_props' = IF prop \in Elems(blocked_props) THEN blocked_props
                            ELSE Append(blocked_props, prop)
    /\ llm_calls' = <<>>
    /\ UNCHANGED <<scene_context, recent_topics, seen_facts, current_triggers,
                   dedupe_enabled, enabled, shown, options, rag_attempts,
                   last_injection_decision, llm_history>>

\* rag_manager.add_topic
SessionAddTopic ==
    /\ options.rag_enabled
    /\ steps < MaxSession /\ steps' = steps + 1
    /\ \E topic \in {<<"TEN", "KIBUN">>} :
        /\ op' = "add_topic" /\ arg' = topic /\ ret' = NoneRecord
        /\ recent_topics' = add_topic(recent_topics, topic)
    /\ llm_calls' = <<>>
    /\ UNCHANGED <<scene_context, blocked_props, seen_facts, current_triggers,
                   dedupe_enabled, enabled, shown, options, rag_attempts,
                   last_injection_decision, llm_history>>

\* rag_manager.set_scene_context, the scene holding 使わない皿
SessionSetSceneContext ==
    /\ options.rag_enabled
    /\ steps < MaxSession /\ steps' = steps + 1
    /\ \E context \in {SceneContext(<<<<"TSUKA", "wa", "na", "_i", "SARA">>>>)} :
        /\ op' = "set_scene_context" /\ arg' = context /\ ret' = NoneRecord
        /\ scene_context' = context
    /\ llm_calls' = <<>>
    /\ UNCHANGED <<blocked_props, recent_topics, seen_facts, current_triggers,
                   dedupe_enabled, enabled, shown, options, rag_attempts,
                   last_injection_decision, llm_history>>

NextSession ==
    \/ SessionEvaluate
    \/ SessionInject
    \/ SessionCommit
    \/ SessionReset
    \/ SessionAddBlockedProp
    \/ SessionAddTopic
    \/ SessionSetSceneContext

SpecSession == InitSession /\ [][NextSession]_vars

\* the session-scoped state is empty: no blocked prop, no recent topic, no
\* fact seen by any speaker, no RAG attempt logged, no turn kept by the LLM
\* director
SessionStateEmpty ==
    /\ blocked_props = <<>>
    /\ recent_topics = <<>>
    /\ \A s \in DOMAIN seen_facts : seen_facts[s] = {}
    /\ rag_attempts = <<>>
    /\ llm_history = <<>>

\* the RAG log of evaluate_response(speaker, response) in a session in
\* which nothing has happened
FreshLog(o, dedupe_on, speaker, response) ==
    LET rag == DirectorHybrid_search_rag(o, NoneRecord, <<>>, <<>>, [s \in {} |-> {}],
                                         <<>>, dedupe_on, speaker, response)
    IN  IF rag.rag_log = NoneRecord THEN <<>> ELSE <<rag.rag_log>>

\* what get_facts_for_injection(speaker, response_text, topic) returns in a
\* session in which nothing has happened
FreshInjection(o, dedupe_on, speaker, response_text, topic) ==
    get_facts_for_injection(o, <<>>, speaker, response_text, topic,
        RAGManager_search(PersonaConfig, NoneRecord, <<>>, <<>>, [s \in {} |-> {}],
                          dedupe_on, speaker, text_to_check(response_text, topic),
                          MAX_FACT_COUNT, FALSE).result).value

\* C12: reset_for_new_session is enabled in every state and leaves the
\* blocked props, the recent topics, the facts seen by each speaker, the RAG
\* attempts and the turns of the LLM director empty; the evaluate_response
\* or get_facts_for_injection that follows it finds what it finds in a
\* session in which nothing has happened.
C12_ResetLeavesFreshSession ==
    /\ [](steps < MaxSession => ENABLED SessionReset)
    /\ [][/\ (op' = "reset_for_new_session" => SessionStateEmpty')
          /\ (op = "reset_for_new_session" /\ op' = "evaluate_response"
              => rag_attempts' = FreshLog(options, dedupe_enabled, arg'.speaker, arg'.response))
          /\ (op = "reset_for_new_session" /\ op' = "get_facts_for_injection"
              => ret' = FreshInjection(options, dedupe_enabled, arg'.speaker,
                                       arg'.response_text, arg'.topic))]_vars

\* a reset emptied a session in which facts had been returned, and the
\* evaluate_response after it returns one of them again
C12_Witness ==
    /\ op = "evaluate_response"
    /\ Len(rag_attempts) = 1
    /\ \E k \in 1..Len(rag_attempts[1].facts) :
          <<arg.speaker, rag_attempts[1].facts[k].source, rag_attempts[1].facts[k].text>>
              \in shown.forgotten

\* グラス was blocked before the reset; after it グラスです yields no fact
\* about グラス
C12_WitnessUnblocked ==
    /\ op = "evaluate_response"
    /\ <<"Gu", "Ra", "Su">> \in shown.unblocked
    /\ blocked_props = <<>>
    /\ Contains(arg.response, <<"Gu", "Ra", "Su">>)
    /\ Len(rag_attempts) = 1
    /\ \A k \in 1..Len(rag_attempts[1].facts) :
          ~Contains(rag_attempts[1].facts[k].text, <<"SON", "ZAI", "shi", "na", "_i">>)

\* the reset found every part of the session state filled
C12_WitnessFull ==
    /\ op = "reset_for_new_session"
    /\ shown.unblocked # {} /\ shown.forgotten # {}
    /\ SessionStateEmpty

-----------------------------------------------------------------------------
(* rag/fact_card.py: the constructor of FactCard as a state machine: the    *)
(* arguments are drawn, then FactCard(...) is called                       *)

\* FactCard(...) raised ValueError: there is no card
Raised(message) == [raised |-> TRUE, message |-> message, card |-> NoneRecord]

\* FactCard(...) returned the card
Constructed(card) == [raised |-> FALSE, message |-> "", card |-> card]

\* a constructor that cuts the content and clamps the numbers
FactCard_clamping(content, source, priority, confidence) ==
    Constructed(FactCard(Prefix(content, MAX_FACT_LENGTH), source,
                         IF priority < 1 THEN 1 ELSE IF priority > 4 THEN 4 ELSE priority,
                         IF confidence < 0 THEN 0 ELSE IF confidence > UNIT THEN UNIT ELSE confidence))

\* FactCard.__init__ with __post_init__
FactCard_post_init(content, source, priority, confidence) ==
    IF Len(content) > MAX_FACT_LENGTH
    THEN Raised("Fact content exceeds 50 chars")
    ELSE IF ~(1 <= priority /\ priority <= 4)
    THEN Raised("Priority must be 1-4")
    ELSE IF ~(0 <= confidence /\ confidence <= UNIT)
    THEN Raised("Confidence must be 0.0-1.0")
    ELSE Constructed(FactCard(content, source, priority, confidence))

\* contents of 0, 1, 49, 50, 51 and 60 characters
CardContents == { [i \in 1..n |-> "_a"] : n \in {0, 1, 49, 50, 51, 60} }

\* priorities around 1..4
CardPriorities == {-1, 0, 1, 2, 4, 5, 9}

\* confidences around [0, 1]: -0.5, -0.0001, 0, 0.5, 1, 1.0001, 2
CardConfidences == {-5000, -1, 0, 5000, UNIT, UNIT + 1, 2 * UNIT}

InitCards ==
    /\ op = "input"
    /\ arg \in [content : CardContents, source : {"persona", "session"},
                priority : CardPriorities, confidence : CardConfidences]
    /\ ret = NoneRecord
    /\ InitRAG /\ InitDirectors

\* FactCard(content, source, priority, confidence)
ConstructFactCard ==
    /\ op = "input"
    /\ op' = "FactCard"
    /\ ret' = FactCard_post_init(arg.content, arg.source, arg.priority, arg.confidence)
    /\ UNCHANGED <<arg, ragVars, directorVars>>

NextCards == ConstructFactCard

SpecCards == InitCards /\ [][NextCards]_vars

\* the three bounds of a card
WithinBounds(card) ==
    /\ Len(card.content) <= MAX_FACT_LENGTH
    /\ card.priority \in 1..4
    /\ 0 <= card.confidence /\ card.confidence <= UNIT

\* C13: FactCard(...) with a content of more than 50 characters, a priority
\* outside 1..4 or a confidence outside [0, 1] raises and yields no card;
\* otherwise the card has the arguments as they were given; every card
\* constructed is within the three bounds.
C13_FactCardValidated ==
    op = "FactCard" =>
        /\ ~WithinBounds(arg) => ret.raised /\ ret.card = NoneRecord
        /\ WithinBounds(arg) =>
              ~ret.raised /\ ret.card = FactCard(arg.content, arg.source,
                                                 arg.priority, arg.confidence)
        /\ ret.card # NoneRecord => WithinBounds(ret.card)

\* a content of 51 characters with everything else in range is refused
C13_Witness ==
    /\ op = "FactCard"
    /\ Len(arg.content) = 51 /\ arg.priority = 1 /\ arg.confidence = UNIT
    /\ ret.raised /\ ret.card = NoneRecord

\* priority 5 alone, and confidence 1.0001 alone, are refused
C13_WitnessPriority ==
    /\ op = "FactCard"
    /\ Len(arg.content) = 50 /\ arg.priority = 5 /\ arg.confidence = 0
    /\ ret.raised

C13_WitnessConfidence ==
    /\ op = "FactCard"
    /\ Len(arg.content) = 50 /\ arg.priority = 4 /\ arg.confidence = UNIT + 1
    /\ ret.raised

\* the card on the three bounds is constructed
C13_WitnessKept ==
    /\ op = "FactCard"
    /\ Len(arg.content) = 50 /\ arg.priority = 4 /\ arg.confidence = UNIT
    /\ ~ret.raised /\ Len(ret.card.content) = 50

\* the decision of a call that injects nothing
NoInjection == InjectionDecision(FALSE, <<>>, <<>>, FALSE, FALSE, 0)

\* the triggers that fire for get_facts_for_injection(speaker, response_text,
\* topic) in the present state: a blocked prop in the text that is checked,
\* a fact of the search that reads 使わない, a request for formal speech put
\* to やな, a wrong way of addressing やな put to あゆ
TriggersFired(speaker, response_text, topic) ==
    LET text == IF response_text = <<>> THEN topic ELSE response_text
        found == RAGManager_search(PersonaConfig, scene_context, blocked_props,
                                   recent_topics, seen_facts, dedupe_enabled,
                                   speaker, text, MAX_FACT_COUNT, FALSE).result.facts
    IN  (IF ContainsAny(text, blocked_props) THEN {"blocked_prop"} ELSE {})
        \cup (IF \E k \in 1..Len(found) :
                     Contains(found[k].content, <<"TSUKA", "wa", "na", "_i">>)
              THEN {"prohibited_term"} ELSE {})
        \cup (IF speaker = YANA /\ ContainsAny(topic, TONE_VIOLATION_PATTERNS)
              THEN {"tone_violation"} ELSE {})
        \cup (IF speaker = AYU /\ ContainsAny(topic, ADDRESSING_VIOLATION_PATTERNS)
              THEN {"addressing_violation"} ELSE {})

\* C14: a call of get_facts_for_injection with injection disabled, with RAG
\* disabled, or with none of the four triggers firing returns the empty
\* list and leaves a decision with would_inject false, no reasons and
\* facts_injected 0.
C14_NoTriggerNoInjection ==
    [][(/\ op' = "get_facts_for_injection"
        /\ \/ ~options.inject_enabled
           \/ ~options.rag_enabled
           \/ TriggersFired(arg'.speaker, arg'.response_text, arg'.topic) = {})
       => /\ ret' = <<>>
          /\ last_injection_decision' = NoInjection]_vars

\* injection and RAG are on, the search found facts for the speaker, no
\* trigger fired: nothing is injected
C14_Witness ==
    /\ op = "get_facts_for_injection"
    /\ options.inject_enabled /\ options.rag_enabled
    /\ arg.response_text = <<"_o", "ha", "yo", "_u">> /\ arg.topic = <<>>
    /\ SeenBy(seen_facts, arg.speaker) # {}
    /\ ret = <<>> /\ last_injection_decision = NoInjection

\* injection is off, RAG is on, the topic names a blocked prop
C14_WitnessInjectOff ==
    /\ op = "get_facts_for_injection"
    /\ ~options.inject_enabled /\ options.rag_enabled
    /\ ContainsAny(arg.topic, blocked_props)
    /\ ret = <<>> /\ last_injection_decision = NoInjection

\* RAG is off, injection is on, やな is asked for formal speech
C14_WitnessRagOff ==
    /\ op = "get_facts_for_injection"
    /\ options.inject_enabled /\ ~options.rag_enabled
    /\ arg.speaker = YANA /\ ContainsAny(arg.topic, TONE_VIOLATION_PATTERNS)
    /\ ret = <<>> /\ last_injection_decision = NoInjection

\* the scene holds 使わない皿 and the text holds no term the speaker must
\* not use: the fact about the scene reads 使わない and counts as the
\* prohibited-term trigger
C14_WitnessSceneProp ==
    /\ op = "get_facts_for_injection"
    /\ ~ContainsAny(arg.response_text \o <<"|">> \o arg.topic,
                    PersonaConfig.characters[arg.speaker].speech_style.prohibited)
    /\ last_injection_decision.reasons = <<"prohibited_terms">>
    /\ ret # <<>>

\* the last call was get_facts_for_injection with injection and RAG on, and
\* its topic names a prop of the blocked-prop history
TopicNamesBlockedProp ==
    /\ op = "get_facts_for_injection"
    /\ options.inject_enabled /\ options.rag_enabled
    /\ ContainsAny(arg.topic, blocked_props)

\* the call reported would_inject with the reason predicted_blocked_props
\* and returned a SCENE fact that names prop
InjectedFor(prop) ==
    /\ last_injection_decision.would_inject
    /\ "predicted_blocked_props" \in Elems(last_injection_decision.reasons)
    /\ \E k \in 1..Len(ret) : ret[k].tag = "SCENE" /\ Contains(ret[k].text, prop)

\* C15: with injection and RAG on, when the topic of get_facts_for_injection
\* names a prop of the blocked-prop history, the call reports would_inject
\* with the reason predicted_blocked_props and returns a SCENE fact for a
\* blocked prop named in the topic, whatever the response_text.
C15_TopicBlockedPropInjected ==
    TopicNamesBlockedProp =>
        \E i \in 1..Len(blocked_props) :
            Contains(arg.topic, blocked_props[i]) /\ InjectedFor(blocked_props[i])

\* without a response_text the topic is what is checked, and the fact for
\* the blocked prop comes back
C15_Witness ==
    /\ TopicNamesBlockedProp
    /\ arg.response_text = <<>>
    /\ \E i \in 1..Len(blocked_props) :
            Contains(arg.topic, blocked_props[i]) /\ InjectedFor(blocked_props[i])

\* a response_text that does not name the prop is checked in place of the
\* topic: nothing is injected
C15_WitnessTopicIgnored ==
    /\ TopicNamesBlockedProp
    /\ arg.response_text = <<"_o", "ha", "yo", "_u">>
    /\ ret = <<>> /\ ~last_injection_decision.would_inject

-----------------------------------------------------------------------------
(* checks/format_check.py: FormatChecker as a state machine: the thresholds *)
(* and the response are drawn, then check is called                        *)

\* the pairs (retry_line_threshold, warn_line_threshold): the defaults, a
\* stricter pair, equal thresholds, a warn threshold above the retry
\* threshold, and thresholds of 1 and 0
LineThresholds == { <<8, 6>>, <<3, 2>>, <<6, 6>>, <<4, 6>>, <<1, 1>>, <<2, 0>> }

MaxLines == 9

\* n lines of text, one after the other
PlainLines(n) ==
    Flatten([i \in 1..n |-> (IF i = 1 THEN <<>> ELSE <<"\n">>) \o <<"_a", "_i">>])

\* n lines of text, indented, each followed by an empty line and a line of
\* blanks
SpacedLines(n) ==
    <<"\n">> \o Flatten([i \in 1..n |-> <<" ", "_a", "_i", " ", "\n", "\n", " ", "\t", "\n">>])

InitFormat ==
    /\ op = "input"
    /\ \E n \in 0..MaxLines, t \in LineThresholds, text \in {"plain", "spaced"} :
          arg = [n |-> n, retry_line_threshold |-> t[1], warn_line_threshold |-> t[2],
                 response |-> IF text = "plain" THEN PlainLines(n) ELSE SpacedLines(n)]
    /\ ret = NoneRecord
    /\ InitRAG /\ InitDirectors

\* FormatChecker(retry_line_threshold, warn_line_threshold).check(response)
FormatCheck ==
    /\ op = "input"
    /\ op' = "FormatChecker.check"
    /\ ret' = FormatChecker_check_with(arg.retry_line_threshold, arg.warn_line_threshold,
                                       arg.response)
    /\ UNCHANGED <<arg, ragVars, directorVars>>

NextFormat == FormatCheck

SpecFormat == InitFormat /\ [][NextFormat]_vars

\* with the default thresholds 5 lines are PASS, 6 are WARN and 8 are RETRY
DefaultLinePoints ==
    (arg.retry_line_threshold = 8 /\ arg.warn_line_threshold = 6) =>
        /\ arg.n = 5 => ret.status = PASS
        /\ arg.n = 6 => ret.status = WARN
        /\ arg.n = 8 => ret.status = RETRY

\* the statement for every pair of thresholds, one above the other or not
C16_AsStated ==
    op = "FormatChecker.check" =>
        /\ arg.n >= arg.retry_line_threshold => ret.status = RETRY
        /\ (arg.warn_line_threshold <= arg.n /\ arg.n < arg.retry_line_threshold)
              => ret.status = WARN
        /\ arg.n < arg.warn_line_threshold => ret.status = PASS
        /\ DefaultLinePoints

\* C16: for a response of n non-blank lines, FormatChecker gives RETRY if
\* n >= retry_line_threshold, WARN if warn_line_threshold <= n <
\* retry_line_threshold, and PASS if n is below both thresholds; with the
\* defaults 5 lines are PASS, 6 are WARN and 8 are RETRY.
C16_LineThresholds ==
    op = "FormatChecker.check" =>
        /\ arg.n >= arg.retry_line_threshold
              => ret.status = RETRY /\ ~ret.passed
        /\ (arg.warn_line_threshold <= arg.n /\ arg.n < arg.retry_line_threshold)
              => ret.status = WARN /\ ret.passed
        /\ (arg.n < arg.warn_line_threshold /\ arg.n < arg.retry_line_threshold)
              => ret.status = PASS /\ ret.passed
        /\ DefaultLinePoints

\* six lines among empty lines and lines of blanks, the default thresholds:
\* WARN
C16_Witness ==
    /\ op = "FormatChecker.check"
    /\ arg.retry_line_threshold = 8 /\ arg.warn_line_threshold = 6
    /\ arg.n = 6 /\ Len(Split(arg.response, "\n")) > 6
    /\ ret.status = WARN

\* five lines with retry_line_threshold 4 and warn_line_threshold 6: RETRY
C16_WitnessCrossed ==
    /\ op = "FormatChecker.check"
    /\ arg.retry_line_threshold = 4 /\ arg.warn_line_threshold = 6
    /\ arg.n = 5
    /\ ret.status = RETRY

-----------------------------------------------------------------------------
(* checks/thought_check.py: ThoughtChecker as a state machine: the          *)
(* constructor arguments and the response are drawn, then the checker is   *)
(* constructed and check is called                                         *)

\* ThoughtChecker.__init__(self, min_thought_length=3): a keyword argument
\* it does not have is a TypeError
ThoughtChecker_init(keywords) ==
    IF keywords \subseteq {"min_thought_length"}
    THEN [raised |-> FALSE, error |-> ""]
    ELSE [raised |-> TRUE, error |-> "TypeError"]

\* ThoughtChecker(), ThoughtChecker(strict_mode=True),
\* ThoughtChecker(strict_mode=False)
ThoughtModes == {"default", "True", "False"}

\* the Thoughts of DirectorMinimal's inputs, and Thought: (\n and
\* Thought: ()\n
ModeThoughtParts ==
    ThoughtParts
    \cup { <<"T", "h", "o", "u", "g", "h", "t", ":", " ", "(", "\n">>,
           <<"T", "h", "o", "u", "g", "h", "t", ":", " ", "(", ")", "\n">> }

\* no Output, Output: 「おはよう」, and おはよう without a marker
ModeOutputParts ==
    { <<>>,
      <<"O", "u", "t", "p", "u", "t", ":", " ", "<[>", "_o", "ha", "yo", "_u", "<]>">>,
      <<"<[>", "_o", "ha", "yo", "_u", "<]>">> }

InitThought ==
    /\ op = "input"
    /\ \E mode \in ThoughtModes, t \in ModeThoughtParts, o \in ModeOutputParts :
          arg = [strict_mode |-> mode, response |-> t \o o]
    /\ ret = NoneRecord
    /\ InitRAG /\ InitDirectors

\* ThoughtChecker(...).check(response)
ThoughtCheck ==
    /\ op = "input"
    /\ op' = "ThoughtChecker.check"
    /\ \E made \in {ThoughtChecker_init(IF arg.strict_mode = "default" THEN {}
                                        ELSE {"strict_mode"})} :
          ret' = IF made.raised
                 THEN [raised |-> TRUE, error |-> made.error, result |-> NoneRecord]
                 ELSE [raised |-> FALSE, error |-> "",
                       result |-> ThoughtChecker_check(arg.response)]
    /\ UNCHANGED <<arg, ragVars, directorVars>>

NextThought == ThoughtCheck

SpecThought == InitThought /\ [][NextThought]_vars

\* the call returned a CheckResult with this status and this passed
Checked(status, passed) ==
    /\ ~ret.raised
    /\ ret.result.status = status
    /\ ret.result.passed = passed

\* the response has the Thought marker and its Thought is empty or cut
EmptyOrTruncated(response) ==
    LET v == validate_thought(response)
    IN  v.has_thought /\ (v.is_empty \/ v.is_truncated)

\* the response has a Thought of min_thought_length or more, whole, and an
\* Output
ValidThought(response) ==
    LET v == validate_thought(response)
    IN  /\ v.has_thought /\ ~v.is_empty /\ ~v.is_truncated /\ v.has_output
        /\ Len(Strip(v.thought_content)) >= min_thought_length

\* C17: ThoughtChecker has a strict and a relaxed mode: an empty or
\* truncated Thought with its marker is RETRY, not passed, in strict mode
\* and WARN, passed, in relaxed mode; a response without the Thought marker
\* is RETRY in both modes and a valid Thought is PASS in both.
C17_StrictAndRelaxed ==
    (op = "ThoughtChecker.check" /\ arg.strict_mode \in {"True", "False"}) =>
        /\ EmptyOrTruncated(arg.response)
              => IF arg.strict_mode = "True" THEN Checked(RETRY, FALSE)
                 ELSE Checked(WARN, TRUE)
        /\ ~validate_thought(arg.response).has_thought => Checked(RETRY, FALSE)
        /\ ValidThought(arg.response) => Checked(PASS, TRUE)

\* the checker as it can be constructed: an empty Thought with its marker
\* is RETRY, a valid Thought PASS
C17_Witness ==
    /\ op = "ThoughtChecker.check"
    /\ arg.strict_mode = "default"
    /\ EmptyOrTruncated(arg.response)
    /\ Checked(RETRY, FALSE)

\* ThoughtChecker(strict_mode=False) does not construct
C17_WitnessNoMode ==
    /\ op = "ThoughtChecker.check"
    /\ arg.strict_mode = "False"
    /\ ret.raised /\ ret.error = "TypeError"

-----------------------------------------------------------------------------
(* state/signals.py, state/extractor.py: emotion extraction from a Thought  *)

\* the emotions of EMOTION_SIGNALS, in the dictionary's order
EmotionTypes == <<"joy", "worry", "annoyance", "affection">>

EMOTION_SIGNALS ==
    [
      joy |-> <<
        <<"URE", "shi", "_i">>,
        <<"TANOSHI", "shi", "_i">>,
        <<"Wa", "Ku", "Wa", "Ku">>,
        <<"MOST", "TAKA">>,
        <<"MOTO", "TEKI">>,
        <<"yo", "ka", "xtsu", "ta">>,
        <<"MEN", "SHIRO", "_i">>,
        <<"SHIAWASE", "se">>,
        <<"_i", "_i", "na">>,
        <<"SUKI", "ki">>,
        <<"WARA", "KAO">>,
        <<"ya", "xtsu", "ta">> >>,
      worry |-> <<
        <<"KOKORO", "KUBARU">>,
        <<"FU_NOT", "YASU">>,
        <<"DAI", "JOU", "OTTO", "ka", "na">>,
        <<"KOMA", "ru">>,
        <<"do", "_u", "shi", "yo", "_u">>,
        <<"KIBUN", "ni", "na", "ru">>,
        <<"KOWA", "_i">>,
        <<"FU_NOT", "YASU", "SADAME">> >>,
      annoyance |-> <<
        <<"ma", "ta", "HAJIME", "ma", "xtsu", "ta">>,
        <<"_i", "tsu", "mo">>,
        <<"MEN", "TAO">>,
        <<"_u", "nn", "za", "ri">>,
        <<"ya", "re", "ya", "re">>,
        <<"ha", "xa">>,
        <<"ta", "me", "IKI">>,
        <<"SERVE", "KATA", "na", "_i">>,
        <<"KOMA", "xtsu", "ta">>,
        <<"NASHI", "KAMI", "PASS">> >>,
      affection |-> <<
        <<"CAN", "LOVE", "_i">>,
        <<"DAI", "KIRU">>,
        <<"MAMORU", "ri", "ta", "_i">>,
        <<"LOVE", "_o", "shi", "_i">>,
        <<"IMOUTO", "OMO", "_i">>,
        <<"ANE", "OMO", "_i">>,
        <<"NAKA", "YOI", "shi">> >> ]

EMOTION_PRIORITY == [affection |-> 4, joy |-> 3, worry |-> 2, annoyance |-> 1, neutral |-> 0]

NEGATION_PREFIX_TOKENS == <<>>

NEGATION_SUFFIX_TOKENS ==
    <<
        <<"ku", "na", "_i">>,
        <<"ji", "xya", "na", "_i">>,
        <<"de", "mo", "na", "_i">>,
        <<"de", "ha", "na", "_i">> >>

NEGATION_WINDOW == 6

\* text.find(signal): the first position of signal in text, -1 when absent
Find(text, signal) ==
    IF Contains(text, signal)
    THEN CHOOSE i \in 0..(Len(text) - Len(signal)) :
            /\ StartsAt(text, i, signal)
            /\ \A j \in 0..(i - 1) : ~StartsAt(text, j, signal)
    ELSE -1

\* the larger and the smaller of two integers
Larger(a, b) == IF a >= b THEN a ELSE b
Smaller(a, b) == IF a <= b THEN a ELSE b

\* _is_negated(text, signal): a prefix token in the window before the first
\* match, or a suffix token in the window after it
is_negated(text, signal) ==
    LET pos == Find(text, signal)
        prefix_start == Larger(0, pos - NEGATION_WINDOW)
        suffix_start == pos + Len(signal)
        suffix_end == Smaller(Len(text), suffix_start + NEGATION_WINDOW)
    IN  IF pos < 0 THEN FALSE
        ELSE \/ ContainsAny(Slice(text, prefix_start, pos), NEGATION_PREFIX_TOKENS)
             \/ ContainsAny(Slice(text, suffix_start, suffix_end), NEGATION_SUFFIX_TOKENS)

\* count_signal_matches(text, signals): the signals found and not negated
count_signal_matches(text, signals) ==
    Cardinality({k \in 1..Len(signals) :
                    Contains(text, signals[k]) /\ ~is_negated(text, signals[k])})

\* sum(1 for signal in signals if signal in thought)
signals_in(thought, signals) ==
    Cardinality({k \in 1..Len(signals) : Contains(thought, signals[k])})

\* the emotion chosen from the counts: none counted is neutral, else the
\* highest count, and among equals the highest EMOTION_PRIORITY
emotion_of_scores(scores) ==
    LET scored == {EmotionTypes[k] : k \in {j \in 1..Len(EmotionTypes) : scores[EmotionTypes[j]] > 0}}
    IN  IF scored = {} THEN [emotion |-> "neutral", count |-> 0]
        ELSE LET max_count == CHOOSE c \in {scores[e] : e \in scored} :
                                  \A e \in scored : scores[e] <= c
                 candidates == {e \in scored : scores[e] = max_count}
                 best == CHOOSE e \in candidates :
                            \A f \in candidates : EMOTION_PRIORITY[f] <= EMOTION_PRIORITY[e]
             IN  [emotion |-> best, count |-> max_count]

\* StateExtractor._detect_emotion(thought)
detect_emotion(thought) ==
    emotion_of_scores([e \in Elems(EmotionTypes) |-> signals_in(thought, EMOTION_SIGNALS[e])])

\* StateExtractor._calculate_confidence(signal_count, emotion)
calculate_confidence(signal_count, emotion) ==
    IF emotion = "neutral" /\ signal_count = 0 THEN 2000
    ELSE Smaller(3000 + signal_count * 2000, UNIT)

\* StateExtractor.extract(thought, speaker): the emotion and the confidence
\* of the ExtractedState
StateExtractor_extract(thought) ==
    IF thought = <<>> \/ Strip(thought) = <<>>
    THEN [emotion |-> "neutral", confidence |-> 0]
    ELSE LET found == detect_emotion(thought)
         IN  [emotion |-> found.emotion,
              confidence |-> calculate_confidence(found.count, found.emotion)]

\* the Thoughts: an optional emphasis, a keyword or none, a gap of 0, 3 or
\* 7 characters, a negation or none, and an optional second clause
EmotionPrefixes == { <<>>, <<"ZEN", "SHIKARI">> }
EmotionKeywords ==
    { <<>>, <<"MOST", "TAKA">>, <<"URE", "shi", "_i">>, <<"SUKI", "ki">>,
      <<"KOKORO", "KUBARU">>, <<"MEN", "TAO">>, <<"CAN", "LOVE", "_i">> }
EmotionGaps == { <<>>, <<"na", "KIBUN", "BUN">>, <<"to", "GEN", "_u", "ho", "do", "no">> }
EmotionSuffixes ==
    { <<>>, <<"de", "mo", "na", "_i">>, <<"ji", "xya", "na", "_i">>,
      <<"de", "ha", "na", "_i">>, <<"ku", "na", "_i">>, <<"<!>">> }
EmotionTails == { <<>>, <<"<.>", "CAN", "LOVE", "_i">>, <<"<.>", "URE", "shi", "_i", "<,>", "MOST", "TAKA">> }

InitEmotion ==
    /\ op = "input"
    /\ \E p \in EmotionPrefixes, k \in EmotionKeywords, g \in EmotionGaps,
          s \in EmotionSuffixes, e \in EmotionTails :
          arg = [thought |-> p \o k \o g \o s \o e]
    /\ ret = NoneRecord
    /\ InitRAG /\ InitDirectors

\* StateExtractor().extract(thought, speaker)
ExtractState ==
    /\ op = "input"
    /\ op' = "extract"
    /\ ret' = StateExtractor_extract(arg.thought)
    /\ UNCHANGED <<arg, ragVars, directorVars>>

NextEmotion == ExtractState

SpecEmotion == InitEmotion /\ [][NextEmotion]_vars

\* the emotion that the counts of count_signal_matches give
GuardedEmotion(thought) ==
    IF thought = <<>> \/ Strip(thought) = <<>> THEN "neutral"
    ELSE emotion_of_scores([e \in Elems(EmotionTypes) |->
                               count_signal_matches(thought, EMOTION_SIGNALS[e])]).emotion

\* the signals of any emotion that the text contains
SignalsFound(thought) ==
    UNION { {EMOTION_SIGNALS[e][k] : k \in {j \in 1..Len(EMOTION_SIGNALS[e]) :
                                  Contains(thought, EMOTION_SIGNALS[e][j])}} : e \in Elems(EmotionTypes) }

\* C18: emotion extraction applies the negation guard: a keyword followed
\* within 6 characters by a suffix negation token is not counted, so the
\* extracted emotion is the one the guarded counts give, a Thought whose
\* keywords are all negated is neutral, and an emphasis prefix in front of
\* a keyword that is not negated leaves the emotion of the keyword
C18_NegationGuardApplied ==
    op = "extract" =>
        /\ ret.emotion = GuardedEmotion(arg.thought)
        /\ (\A s \in SignalsFound(arg.thought) : is_negated(arg.thought, s))
              => ret.emotion = "neutral"

\* extract was called with 最高でもない, whose only keyword 最高 is negated,
\* and answered joy
C18_Witness ==
    /\ op = "extract"
    /\ arg.thought = <<"MOST", "TAKA", "de", "mo", "na", "_i">>
    /\ is_negated(arg.thought, <<"MOST", "TAKA">>)
    /\ SignalsFound(arg.thought) = { <<"MOST", "TAKA">> }
    /\ ret.emotion = "joy"

\* extract was called with 全然最高！ and answered joy
C18_WitnessEmphasis ==
    /\ op = "extract"
    /\ arg.thought = <<"ZEN", "SHIKARI", "MOST", "TAKA", "<!>">>
    /\ ~is_negated(arg.thought, <<"MOST", "TAKA">>)
    /\ ret.emotion = "joy"

\* extract was called with a keyword whose negation lies beyond the window,
\* and the keyword was counted
C18_WitnessBeyondWindow ==
    /\ op = "extract"
    /\ arg.thought = <<"MOST", "TAKA", "to", "GEN", "_u", "ho", "do", "no", "de", "mo", "na", "_i">>
    /\ ~is_negated(arg.thought, <<"MOST", "TAKA">>)
    /\ ret.emotion = "joy"

-----------------------------------------------------------------------------
(* checks/action_sanitizer.py: ActionSanitizer                              *)

\* PROPS_NG_DICT, a set, in the order of its literal
PROPS_NG_DICT ==
    <<
      <<"Ko", "--", "Hi", "--">>,
      <<"KA_COF", "HI_COF">>,
      <<"Ka", "Xtsu", "Pu">>,
      <<"Gu", "Ra", "Su">>,
      <<"Wa", "_I", "Nn">>,
      <<"Bi", "--", "Ru">>,
      <<"_o", "CHA">>,
      <<"KURENAI", "CHA">>,
      <<"Ji", "Xyu", "--", "Su">>,
      <<"MIZU">>,
      <<"GAN", "KAGAMI">>,
      <<"Me", "Ga", "Ne">>,
      <<"me", "ga", "ne">>,
      <<"Sa", "Nn", "Gu", "Ra", "Su">>,
      <<"YUBI", "WA_RING">>,
      <<"Ne", "Xtsu", "Ku", "Re", "Su">>,
      <<"_I", "Ya", "Ri", "Nn", "Gu">>,
      <<"Pi", "_A", "Su">>,
      <<"UDE", "TOKI", "KEI_MEAS">>,
      <<"TOKI", "KEI_MEAS">>,
      <<"Su", "Ma", "Ho">>,
      <<"KEI_CARRY", "TAI">>,
      <<"Pa", "So", "Ko", "Nn">>,
      <<"P", "C">>,
      <<"Ta", "Bu", "Re", "Xtsu", "To">>,
      <<"Ri", "Mo", "Ko", "Nn">>,
      <<"Ta", "Ba", "Ko">>,
      <<"KEMURI", "KUSA">>,
      <<"ta", "ba", "ko">>,
      <<"Ra", "_I", "Ta", "--">>,
      <<"HON">>,
      <<"ZATSU", "SHI_MAG">>,
      <<"SHIN_NEW", "KIKU">>,
      <<"Pe", "Nn">>,
      <<"No", "--", "To">>,
      <<"Ba", "Xtsu", "Gu">>,
      <<"KASA">>,
      <<"Ha", "Nn", "Ka", "Chi">>,
      <<"Te", "Xi", "Xtsu", "Shi", "Xyu">> >>

\* FALLBACK_ACTIONS: the pairs of a prop and its fallback action
FALLBACK_ACTIONS ==
    <<
      <<<<"Ko", "--", "Hi", "--">>, <<"ICHI", "IKI", "tsu", "ku">>>>,
      <<<<"KA_COF", "HI_COF">>, <<"ICHI", "IKI", "tsu", "ku">>>>,
      <<<<"_o", "CHA">>, <<"ICHI", "IKI", "tsu", "ku">>>>,
      <<<<"KURENAI", "CHA">>, <<"ICHI", "IKI", "tsu", "ku">>>>,
      <<<<"NOMU", "mu">>, <<"ICHI", "IKI", "tsu", "ku">>>>,
      <<<<"GAN", "KAGAMI">>, <<"ME_EYE", "wo", "HOSO", "me", "ru">>>>,
      <<<<"Me", "Ga", "Ne">>, <<"ME_EYE", "wo", "HOSO", "me", "ru">>>>,
      <<<<"me", "ga", "ne">>, <<"ME_EYE", "wo", "HOSO", "me", "ru">>>>,
      <<<<"Sa", "Nn", "Gu", "Ra", "Su">>, <<"ME_EYE", "wo", "HOSO", "me", "ru">>>>,
      <<<<"Su", "Ma", "Ho">>, <<"KANGAE", "_e", "KOMU", "mu">>>>,
      <<<<"KEI_CARRY", "TAI">>, <<"KANGAE", "_e", "KOMU", "mu">>>>,
      <<<<"Pa", "So", "Ko", "Nn">>, <<"KANGAE", "_e", "KOMU", "mu">>>>,
      <<<<"P", "C">>, <<"KANGAE", "_e", "KOMU", "mu">>>>,
      <<<<"Ta", "Bu", "Re", "Xtsu", "To">>, <<"KANGAE", "_e", "KOMU", "mu">>>>,
      <<<<"HON">>, <<"KANGAE", "_e", "KOMU", "mu">>>>,
      <<<<"ZATSU", "SHI_MAG">>, <<"KANGAE", "_e", "KOMU", "mu">>>>,
      <<<<"SHIN_NEW", "KIKU">>, <<"KANGAE", "_e", "KOMU", "mu">>>>,
      <<<<"Ta", "Ba", "Ko">>, <<"ICHI", "IKI", "tsu", "ku">>>>,
      <<<<"KEMURI", "KUSA">>, <<"ICHI", "IKI", "tsu", "ku">>>>,
      <<<<"ta", "ba", "ko">>, <<"ICHI", "IKI", "tsu", "ku">>>> >>

DEFAULT_FALLBACK == <<"SHOU", "sa", "ku", "UNAZU", "ku">>

\* SanitizerResult
SanitizerResult(sanitized_text, action_removed, action_replaced, blocked, original_action) ==
    [sanitized_text |-> sanitized_text, action_removed |-> action_removed,
     action_replaced |-> action_replaced, blocked_props |-> blocked,
     original_action |-> original_action]

\* the position of the first character c of text after its first
\* character, 0 when there is none
ClosingAt(text, c) ==
    IF \E j \in 2..Len(text) : text[j] = c
    THEN CHOOSE j \in 2..Len(text) : text[j] = c /\ \A i \in 2..(j - 1) : text[i] # c
    ELSE 0

\* a match of ^<open>([^<close>]+)<close> in text: the group and the
\* position of the closing character
DelimitedAt(text, open, close) ==
    LET j == ClosingAt(text, close)
    IN  IF text # <<>> /\ text[1] = open /\ j >= 3
        THEN [found |-> TRUE, group |-> SubSeq(text, 2, j - 1), end |-> j]
        ELSE [found |-> FALSE, group |-> <<>>, end |-> 0]

\* ActionSanitizer._extract_action(text): ACTION_PATTERN first, then
\* ACTION_ASTERISK_PATTERN
extract_action(text) ==
    LET p == DelimitedAt(text, "<(>", "<)>")
        a == DelimitedAt(text, "*", "*")
    IN  IF p.found THEN [action |-> p.group, action_type |-> "parentheses", end |-> p.end]
        ELSE IF a.found THEN [action |-> a.group, action_type |-> "asterisk", end |-> a.end]
        ELSE [action |-> None, action_type |-> "None", end |-> 0]

\* the characters that [^\w\s] matches, among those of the scene items
SymbolChars == {"<mid>", "<!>", "<?>", "<.>", "<,>", "<[>", "<]>", "<(>", "<)>", "-", "*", "!"}

\* re.sub(r"[^\w\s]", "", item)
CleanItem(item) == Filter(item, LAMBDA c : c \notin SymbolChars)

\* ActionSanitizer._normalize_scene_items(items)
normalize_scene_items(items) ==
    UNION { {items[k], Lower(items[k]), CleanItem(items[k]), Lower(CleanItem(items[k]))} :
              k \in 1..Len(items) }

\* ActionSanitizer._prop_in_scene(prop, normalized_scene)
prop_in_scene(prop, normalized_scene) ==
    \/ prop \in normalized_scene
    \/ Lower(prop) \in normalized_scene
    \/ \E scene_item \in normalized_scene :
          Contains(scene_item, prop) \/ Contains(Lower(scene_item), Lower(prop))

\* every prop of the dictionary that the action names, whatever the scene
detect_blocked_props_any_scene(action, normalized_scene, iteration) ==
    Filter(iteration, LAMBDA prop : Contains(action, prop))

\* ActionSanitizer._detect_blocked_props(action, normalized_scene), the set
\* PROPS_NG_DICT being iterated in the order iteration
detect_blocked_props(action, normalized_scene, iteration) ==
    Filter(iteration, LAMBDA prop : Contains(action, prop) /\ ~prop_in_scene(prop, normalized_scene))

\* a variant without DEFAULT_FALLBACK: no fallback for a prop that
\* FALLBACK_ACTIONS does not name
get_fallback_action_no_default(blocked) ==
    LET has(prop) == \E k \in 1..Len(FALLBACK_ACTIONS) : FALLBACK_ACTIONS[k][1] = prop
        p == FirstIndex(blocked, has)
    IN  IF p = 0 THEN <<>>
        ELSE FALLBACK_ACTIONS[CHOOSE k \in 1..Len(FALLBACK_ACTIONS) :
                                 FALLBACK_ACTIONS[k][1] = blocked[p]][2]

\* ActionSanitizer._get_fallback_action(blocked_props)
get_fallback_action(blocked) ==
    LET has(prop) == \E k \in 1..Len(FALLBACK_ACTIONS) : FALLBACK_ACTIONS[k][1] = prop
        p == FirstIndex(blocked, has)
    IN  IF p = 0 THEN DEFAULT_FALLBACK
        ELSE FALLBACK_ACTIONS[CHOOSE k \in 1..Len(FALLBACK_ACTIONS) :
                                 FALLBACK_ACTIONS[k][1] = blocked[p]][2]

\* ActionSanitizer._replace_action(text, action_type, fallback): the
\* leading action, of either form, becomes the fallback in parentheses
replace_action(text, end, fallback) ==
    <<"<(>">> \o fallback \o <<"<)>">> \o Slice(text, end, Len(text))

\* ActionSanitizer._remove_action(text, action_type): the leading action
\* and the whitespace after it are removed
remove_action(text, end) == LStrip(Slice(text, end, Len(text)))

\* ActionSanitizer._handle_blocked_action
handle_blocked_action(output_text, found, blocked) ==
    LET fallback == get_fallback_action(blocked)
    IN  IF fallback # <<>>
        THEN SanitizerResult(replace_action(output_text, found.end, fallback),
                             FALSE, TRUE, blocked, found.action)
        ELSE SanitizerResult(remove_action(output_text, found.end),
                             TRUE, FALSE, blocked, found.action)

\* ActionSanitizer.sanitize(output_text, scene_items)
sanitize(output_text, scene_items, iteration) ==
    IF output_text = <<>> THEN SanitizerResult(<<>>, FALSE, FALSE, <<>>, None)
    ELSE LET normalized_scene == normalize_scene_items(scene_items)
             found == extract_action(output_text)
         IN  IF found.action_type = "None"
             THEN SanitizerResult(output_text, FALSE, FALSE, <<>>, None)
             ELSE LET blocked == detect_blocked_props(found.action, normalized_scene, iteration)
                  IN  IF blocked = <<>>
                      THEN SanitizerResult(output_text, FALSE, FALSE, <<>>, found.action)
                      ELSE handle_blocked_action(output_text, found, blocked)

\* the props that the actions of the inputs name
SanitizeProps == { <<"Ko", "--", "Hi", "--">>, <<"HON">>, <<"Gu", "Ra", "Su">>, <<"P", "C">> }

\* the orders in which a process can iterate PROPS_NG_DICT, as far as the
\* props of the inputs go
IterationOrders ==
    { o \o Filter(PROPS_NG_DICT, LAMBDA prop : prop \notin SanitizeProps) :
         o \in { s \in [1..Cardinality(SanitizeProps) -> SanitizeProps] :
                    \A i, j \in DOMAIN s : i # j => s[i] # s[j] } }

\* the leading part of a text: none, an action in parentheses or between
\* asterisks, with and without props, and parentheses that hold no action
ActionParts ==
    { <<>>,
      <<"<(>", "HO_BI", "WARA", "mu", "<)>">>,
      <<"<(>", "Ko", "--", "Hi", "--", "wo", "NOMU", "mu", "<)>">>,
      <<"<(>", "HON", "wo", "YOMU", "mi", "na", "ga", "ra", "Ko", "--", "Hi", "--", "wo", "NOMU", "mu", "<)>">>,
      <<"<(>", "P", "C", "wo", "HIRAKU", "ku", "<)>">>,
      <<"*", "Gu", "Ra", "Su", "wo", "MOTSU", "tsu", "*">>,
      <<"*", "HO_BI", "WARA", "mu", "*">>,
      <<"<(>", "<)>">>,
      <<"<(>", "Ko", "--", "Hi", "--">> }

\* the text after the action
DialogueParts ==
    { <<>>, <<"<[>", "_o", "ha", "yo", "_u", "<]>">>, <<" ", "<[>", "HON", "de", "su", "<]>">> }

SceneItemLists ==
    { <<>>,
      <<<<"Ko", "--", "Hi", "--">>>>,
      <<<<"Ko", "--", "Hi", "--", "Ka", "Xtsu", "Pu">>>>,
      <<<<"Ko", "--", "<mid>", "Hi", "--">>>>,
      <<<<"p", "c">>>>,
      <<<<"HON">>, <<"Gu", "Ra", "Su">>>> }

InitSanitize ==
    /\ op = "input"
    /\ \E a \in ActionParts, d \in DialogueParts, items \in SceneItemLists,
          iteration \in IterationOrders :
          arg = [output_text |-> a \o d, scene_items |-> items, iteration |-> iteration]
    /\ ret = NoneRecord
    /\ InitRAG /\ InitDirectors

\* ActionSanitizer().sanitize(output_text, scene_items)
Sanitize ==
    /\ op = "input"
    /\ op' = "sanitize"
    /\ ret' = [first |-> sanitize(arg.output_text, arg.scene_items, arg.iteration),
               again |-> NoneRecord]
    /\ UNCHANGED <<arg, ragVars, directorVars>>

\* sanitize called on the text that sanitize returned, with the same
\* scene items
SanitizeAgain ==
    /\ op = "sanitize"
    /\ op' = "sanitize_again"
    /\ ret' = [ret EXCEPT !.again = sanitize(ret.first.sanitized_text, arg.scene_items,
                                             arg.iteration)]
    /\ UNCHANGED <<arg, ragVars, directorVars>>

NextSanitize == Sanitize \/ SanitizeAgain

SpecSanitize == InitSanitize /\ [][NextSanitize]_vars

\* a prop of the dictionary is found in a scene item, in its lower case or
\* in the item without its symbols
InSceneItems(prop, items) ==
    \E k \in 1..Len(items) :
        \/ Contains(items[k], prop) \/ Contains(Lower(items[k]), Lower(prop))
        \/ Contains(CleanItem(items[k]), prop)
        \/ Contains(Lower(CleanItem(items[k])), Lower(prop))

\* the leading action of the text names a prop of the dictionary that the
\* scene items do not hold
NamesForbiddenProp(text, items) ==
    LET found == extract_action(text)
    IN  /\ found.action_type # "None"
        /\ \E k \in 1..Len(PROPS_NG_DICT) :
              Contains(found.action, PROPS_NG_DICT[k]) /\ ~InSceneItems(PROPS_NG_DICT[k], items)

C19_WitnessAsterisk ==
    /\ op = "sanitize_again"
    /\ arg.output_text = <<"*", "Gu", "Ra", "Su", "wo", "MOTSU", "tsu", "*", "<[>", "_o", "ha", "yo", "_u", "<]>">>
    /\ arg.scene_items = <<<<"HON">>, <<"Gu", "Ra", "Su">>>>
    /\ ret.again.sanitized_text = arg.output_text

\* a text without a leading action was sanitized twice
C19_WitnessNoAction ==
    /\ op = "sanitize_again"
    /\ arg.output_text = <<"<(>", "Ko", "--", "Hi", "--", "<[>", "_o", "ha", "yo", "_u", "<]>">>
    /\ arg.scene_items = <<>>
    /\ ret.again = ret.first

\* a text that names a forbidden prop was sanitized, its action replaced
C19_WitnessUnsafe ==
    /\ op = "sanitize_again"
    /\ NamesForbiddenProp(arg.output_text, arg.scene_items)
    /\ ret.first.action_replaced
    /\ ret.first.sanitized_text # arg.output_text
    /\ ret.again.sanitized_text = ret.first.sanitized_text

-----------------------------------------------------------------------------
(* DirectorMinimal.evaluate_response when no check asks for a retry        *)

\* the names of the six checks, in the order they run
SuiteNames ==
    <<"thought_check", "tone_check", "praise_check",
      "context_check", "setting_check", "format_check">>

\* C20: when none of the six checks returns RETRY, evaluate_response
\* returns WARN if at least one check returned WARN and PASS otherwise; in
\* both cases checks_failed is empty and checks_passed lists all six
\* checks, a check that warned included
C20_WarnOrPass ==
    (op = "evaluate_response"
       /\ \A i \in 1..6 : SuiteResults(arg)[i].status # RETRY) =>
        LET results == SuiteResults(arg)
        IN  /\ ret.status = IF \E i \in 1..6 : results[i].status = WARN THEN WARN ELSE PASS
            /\ ret.checks_failed = <<>>
            /\ ret.checks_passed = SuiteNames
            /\ \A i \in 1..6 : results[i].name = SuiteNames[i]

\* a response on which a check warned and none asked for a retry was
\* evaluated: the result is WARN and the check that warned is listed as
\* passed
C20_Witness ==
    /\ op = "evaluate_response"
    /\ \A i \in 1..6 : SuiteResults(arg)[i].status # RETRY
    /\ \E i \in 1..6 : SuiteResults(arg)[i].status = WARN
                        /\ SuiteResults(arg)[i].name \in Elems(ret.checks_passed)
    /\ ret.status = WARN

\* a response on which every check passed was evaluated: the result is PASS
C20_WitnessPass ==
    /\ op = "evaluate_response"
    /\ \A i \in 1..6 : SuiteResults(arg)[i].status = PASS
    /\ ret.status = PASS
    /\ ret.checks_passed = SuiteNames

\* two checks warned on the same response
C20_WitnessTwoWarnings ==
    /\ op = "evaluate_response"
    /\ \A i \in 1..6 : SuiteResults(arg)[i].status # RETRY
    /\ Cardinality({i \in 1..6 : SuiteResults(arg)[i].status = WARN}) >= 2
    /\ ret.status = WARN

-----------------------------------------------------------------------------
(* the list that get_facts_for_injection returns                           *)

\* the place of a tag in priority_order
TagRank(tag) == CASE tag = "SCENE" -> 1 [] tag = "STYLE" -> 2 [] tag = "REL" -> 3 [] OTHER -> 4

\* C21: when get_facts_for_injection decides to inject, the list it
\* returns has at most 3 facts, at most one fact per tag, and the tags in
\* the order SCENE, STYLE, REL
C21_OnePerTagInOrder ==
    (op = "get_facts_for_injection" /\ last_injection_decision.would_inject) =>
        /\ Len(ret) <= 3
        /\ \A i, j \in 1..Len(ret) : i < j => TagRank(ret[i].tag) < TagRank(ret[j].tag)
        /\ \A i \in 1..Len(ret) : TagRank(ret[i].tag) <= 3

\* an injection for which two blocked props were predicted returned one
\* SCENE fact
C21_Witness ==
    /\ op = "get_facts_for_injection"
    /\ last_injection_decision.would_inject
    /\ Len(last_injection_decision.predicted_blocked_props) = 2
    /\ Cardinality({i \in 1..Len(ret) : ret[i].tag = "SCENE"}) = 1

\* an injection returned a SCENE fact followed by a STYLE fact
C21_WitnessTwoTags ==
    /\ op = "get_facts_for_injection"
    /\ last_injection_decision.would_inject
    /\ Len(ret) >= 2
    /\ ret[1].tag = "SCENE" /\ ret[2].tag = "STYLE"

\* an injection returned three facts, the last one tagged REL
C21_WitnessThree ==
    /\ op = "get_facts_for_injection"
    /\ last_injection_decision.would_inject
    /\ Len(ret) = 3 /\ ret[3].tag = "REL"

-----------------------------------------------------------------------------
(* get_facts_for_injection in a session whose blocked props have names of  *)
(* 1, 30 and 31 characters                                                 *)

\* a prop name of n characters: ア repeated
PropOfLength(n) == [i \in 1..n |-> "_A"]

PropLengths == {1, 30, 31}

\* を持つ
HoldsIt == <<"wo", "MOTSU", "tsu">>

\* the topics: none, a request for polite speech, and each prop held
LongPropTopics ==
    { <<>>, <<"KEI", "LANG", "de", "HANA", "shi", "te">> }
    \cup { PropOfLength(n) \o HoldsIt : n \in PropLengths }

InitProps ==
    /\ op = "init" /\ arg = NoneRecord /\ ret = NoneRecord
    /\ InitRAG
    /\ InitDirectorsWith(HybridOptions(DefaultThresholdConfig, TRUE, TRUE, TRUE))

\* rag_manager.add_blocked_prop(prop)
PropsAddBlockedProp ==
    /\ steps < MaxSession /\ steps' = steps + 1
    /\ \E n \in PropLengths :
        /\ op' = "add_blocked_prop" /\ arg' = PropOfLength(n) /\ ret' = NoneRecord
        /\ blocked_props' = IF PropOfLength(n) \in Elems(blocked_props) THEN blocked_props
                            ELSE Append(blocked_props, PropOfLength(n))
    /\ llm_calls' = <<>>
    /\ UNCHANGED <<scene_context, recent_topics, seen_facts, current_triggers,
                   dedupe_enabled, enabled, shown, options, rag_attempts,
                   last_injection_decision, llm_history>>

\* DirectorHybrid.get_facts_for_injection(speaker, response_text, topic)
PropsInject ==
    /\ steps < MaxSession /\ steps' = steps + 1
    /\ \E speaker \in SessionSpeakers, response_text \in {<<>>, <<"_o", "ha", "yo", "_u">>},
          topic \in LongPropTopics :
       \E found \in {RAGManager_search(PersonaConfig, scene_context, blocked_props,
                                       recent_topics, seen_facts, dedupe_enabled,
                                       speaker, text_to_check(response_text, topic),
                                       MAX_FACT_COUNT, FALSE)} :
       \E out \in {get_facts_for_injection(options, blocked_props, speaker,
                                           response_text, topic, found.result)} :
        LET facts == found.result.facts
            given == {<<speaker, facts[k].source, facts[k].content>> : k \in 1..Len(facts)}
        IN  /\ op' = "get_facts_for_injection"
            /\ arg' = [speaker |-> speaker, response_text |-> response_text, topic |-> topic]
            /\ ret' = out.value
            /\ last_injection_decision' = out.decision
            /\ llm_calls' = <<>>
            /\ current_triggers' = found.triggers
            /\ seen_facts' = found.seen
            /\ shown' = [shown EXCEPT !.all = shown.all \cup given,
                                      !.again = shown.all \cap given,
                                      !.repeats = FALSE, !.previous = <<>>]
            /\ UNCHANGED <<scene_context, blocked_props, recent_topics, dedupe_enabled, enabled,
                           options, rag_attempts, llm_history>>

NextProps == PropsAddBlockedProp \/ PropsInject

SpecProps == InitProps /\ [][NextProps]_vars

\* C22: every fact text that get_facts_for_injection returns is at most
\* 50 characters long, the facts synthesized for a blocked prop, a tone
\* violation and an addressing violation included, whatever the names of
\* the blocked props recorded in the session
C22_FactTextsWithinLimit ==
    op = "get_facts_for_injection" =>
        \A i \in 1..Len(ret) : Len(ret[i].text) <= MAX_FACT_LENGTH

\* a prop name of 31 characters was recorded and named in the topic: the
\* SCENE fact returned is 51 characters long
C22_Witness ==
    /\ op = "get_facts_for_injection"
    /\ PropOfLength(31) \in Elems(last_injection_decision.predicted_blocked_props)
    /\ \E i \in 1..Len(ret) : ret[i].tag = "SCENE" /\ Len(ret[i].text) = 51

\* a prop name of 30 characters gives a SCENE fact of exactly 50 characters
C22_WitnessAtLimit ==
    /\ op = "get_facts_for_injection"
    /\ last_injection_decision.predicted_blocked_props = <<PropOfLength(30)>>
    /\ ret[1].tag = "SCENE" /\ Len(ret[1].text) = 50

\* the tone fact was returned, within the limit
C22_WitnessTone ==
    /\ op = "get_facts_for_injection"
    /\ last_injection_decision.detected_tone_violation
    /\ \E i \in 1..Len(ret) : ret[i] = ToneFact /\ Len(ret[i].text) <= MAX_FACT_LENGTH

-----------------------------------------------------------------------------
(* rag/session_rag.py: the recent topics as a state machine: MaxTopicCalls  *)
(* calls of add_topic and search                                           *)

MaxTopicCalls == 5

\* a topic of 41 characters, whose fact would have 51
LongTopic == [i \in 1..41 |-> "_a"]

\* 天気, 話し方, 本, お茶, the long topic, and the empty topic
SessionTopics ==
    { <<"TEN", "KIBUN">>, <<"HANA", "shi", "KATA">>, <<"HON">>, <<"_o", "CHA">>,
      LongTopic, <<>> }

InitTopics ==
    /\ op = "init" /\ arg = NoneRecord /\ ret = NoneRecord
    /\ InitRAGWith(TRUE)
    /\ InitDirectors

\* SessionRAG.add_topic(topic)
TopicsAdd ==
    /\ steps < MaxTopicCalls /\ steps' = steps + 1
    /\ \E topic \in SessionTopics :
        /\ op' = "add_topic" /\ arg' = topic /\ ret' = NoneRecord
        /\ recent_topics' = add_topic(recent_topics, topic)
        /\ shown' = [shown EXCEPT !.last_topic = IF topic # <<>> THEN topic ELSE @]
    /\ UNCHANGED <<scene_context, blocked_props, seen_facts, current_triggers,
                   dedupe_enabled, enabled, directorVars>>

\* SessionRAG.search(speaker, response_text)
TopicsSearch ==
    /\ steps < MaxTopicCalls /\ steps' = steps + 1
    /\ op' = "search"
    /\ arg' = [speaker |-> YANA, response_text |-> <<"Te", "Su", "To">>]
    /\ ret' = SessionRAG_search(scene_context, blocked_props, recent_topics,
                                YANA, <<"Te", "Su", "To">>, MAX_FACT_COUNT)
    /\ UNCHANGED <<sessionVars, directorVars>>

NextTopics == TopicsAdd \/ TopicsSearch

SpecTopics == InitTopics /\ [][NextTopics]_vars

\* 現在の話題: 「
TopicFactHead == <<"NOW", "ZAI", "no", "HANA", "TOPIC", ":", " ", "<[>">>

\* the topic facts of a list of facts
TopicFacts(facts) ==
    {facts[k].content : k \in {j \in 1..Len(facts) : StartsAt(facts[j].content, 0, TopicFactHead)}}

\* C23: after any sequence of add_topic calls the recent topics are at
\* most 3, and the topic fact that a search offers names the topic of the
\* most recent add_topic call with a non-empty topic, also when that topic
\* had been added earlier in the session
C23_TopicFactNamesLastAdded ==
    /\ Len(recent_topics) <= 3
    /\ op = "search" =>
         \A content \in TopicFacts(ret) :
             content = TopicFactHead \o shown.last_topic \o <<"<]>", "<.>">>

\* the recent topics are at most 3 after every call
C23_AtMostThreeTopics == Len(recent_topics) <= 3

\* a search after 天気, 話し方 and 天気 again offers the topic 話し方
C23_Witness ==
    /\ op = "search"
    /\ shown.last_topic = <<"TEN", "KIBUN">>
    /\ recent_topics = << <<"TEN", "KIBUN">>, <<"HANA", "shi", "KATA">> >>
    /\ TopicFacts(ret) = {TopicFactHead \o <<"HANA", "shi", "KATA">> \o <<"<]>", "<.>">>}

\* a fourth topic was added: the oldest one is gone and a search offers the
\* newest
C23_WitnessFourth ==
    /\ op = "search"
    /\ Len(recent_topics) = 3
    /\ steps = 5
    /\ shown.last_topic \notin {LongTopic, <<>>}
    /\ shown.last_topic = recent_topics[3]
    /\ TopicFacts(ret) = {TopicFactHead \o shown.last_topic \o <<"<]>", "<.>">>}

\* the last topic added is too long for a fact: a search offers no topic
\* fact
C23_WitnessLong ==
    /\ op = "search"
    /\ shown.last_topic = LongTopic
    /\ Len(recent_topics) >= 2
    /\ TopicFacts(ret) = {}

-----------------------------------------------------------------------------
(* the attempt log of DirectorHybrid and the summary attached to an        *)
(* Evaluation                                                              *)

\* the sum of the counts of a sources dict
SourceTotal(sources) ==
    LET F[T \in SUBSET DOMAIN sources] ==
            IF T = {} THEN 0
            ELSE LET x == CHOOSE x \in T : TRUE IN sources[x] + F[T \ {x}]
    IN  F[DOMAIN sources]

\* the number of facts over the attempts
FactsLogged(attempts) ==
    LET F[i \in 0..Len(attempts)] ==
            IF i = 0 THEN 0 ELSE F[i - 1] + Len(attempts[i].facts)
    IN  F[Len(attempts)]

\* the summary is the one of n attempts
SummaryOf(summary, attempts) ==
    /\ summary.used_for_attempts = [i \in 1..Len(attempts) |-> i]
    /\ summary.facts_count = FactsLogged(attempts)
    /\ SourceTotal(summary.sources) = summary.facts_count
    /\ Len(summary.top_tags) <= 3
    /\ \A i, j \in 1..Len(summary.top_tags) :
           i # j => summary.top_tags[i] # summary.top_tags[j]

\* C24: with RAG enabled every evaluate_response appends exactly one
\* attempt to the attempt log, whether it short-circuits on a static RETRY,
\* merges with the LLM verdict or falls back after an LLM error, and the
\* summary attached has used_for_attempts = 1..n for the n evaluate calls
\* since the last clear_rag_attempts or reset, facts_count the number of
\* facts over those attempts, source counts that sum to facts_count and at
\* most 3 distinct tags; with RAG disabled no summary is attached
C24_OneAttemptPerEvaluate ==
    [][/\ (op' = "evaluate_response" /\ options.rag_enabled) =>
             /\ Len(rag_attempts') = Len(rag_attempts) + 1
             /\ Prefix(rag_attempts', Len(rag_attempts)) = rag_attempts
             /\ ret'.rag_summary # NoneRecord
             /\ SummaryOf(ret'.rag_summary, rag_attempts')
       /\ (op' = "evaluate_response" /\ ~options.rag_enabled) =>
             /\ ret'.rag_summary = NoneRecord
             /\ rag_attempts' = <<>>
       /\ op' \in {"clear_rag_attempts", "reset_for_new_session"} => rag_attempts' = <<>>
       /\ op' \in {"commit_evaluation", "add_blocked_prop"} => rag_attempts' = rag_attempts
      ]_vars

\* the second evaluate_response in a row short-circuited on a static RETRY,
\* and its summary counts two attempts with facts
C24_Witness ==
    /\ op = "evaluate_response"
    /\ options.rag_enabled /\ options.skip_llm_on_static_retry
    /\ StaticVerdict.status = RETRY
    /\ llm_calls = <<>>
    /\ Len(rag_attempts) = 2
    /\ ret.rag_summary.used_for_attempts = <<1, 2>>
    /\ ret.rag_summary.facts_count > 0

\* an evaluate_response whose LLM strategy raised carries a summary
C24_WitnessFallback ==
    /\ op = "evaluate_response"
    /\ options.rag_enabled
    /\ arg.llm.raises
    /\ "llm_evaluation" \in Elems(ret.checks_failed)
    /\ ret.rag_summary.used_for_attempts = <<1>>

\* an evaluate_response merged with the LLM verdict after a
\* clear_rag_attempts counts one attempt
C24_WitnessAfterClear ==
    /\ op = "evaluate_response"
    /\ options.rag_enabled
    /\ steps = 2
    /\ ~arg.llm.raises /\ llm_calls # <<>>
    /\ ret.rag_summary.used_for_attempts = <<1>>

\* without RAG an evaluate_response carries no summary
C24_WitnessDisabled ==
    /\ op = "evaluate_response"
    /\ ~options.rag_enabled
    /\ ret.rag_summary = NoneRecord

-----------------------------------------------------------------------------
(* checks/praise_check.py: PraiseChecker as a state machine: a speaker and  *)
(* a sentence, said plainly or inside quote brackets, are drawn and check  *)
(* is called                                                               *)

\* none, さすが, すごい, 正解です
PraiseParts == { <<>>, <<"sa", "su", "ga">>, <<"su", "go", "_i">>, <<"SEI", "SOLVE", "de", "su">> }

\* none, あなた, その答え
RecipientParts == { <<>>, <<"_a", "na", "ta">>, <<"so", "no", "KOTAE", "_e">> }

\* how the sentence is said: plainly, in 「」, in 『』, after a stage
\* direction in （）, or after Output:
PraiseForms == {"plain", "quoted", "double_quoted", "after_action", "output_quoted"}

\* 。 or ！！
PraiseEndings == { <<"<.>">>, <<"<!>", "<!>">> }

\* the response: the recipient, は, the praise word and です, in the form
Said(form, recipient, praise, ending) ==
    LET sentence == recipient \o (IF recipient # <<>> THEN <<"ha">> ELSE <<>>)
                    \o praise \o <<"de", "su">> \o ending
    IN  CASE form = "plain" -> sentence
          [] form = "quoted" -> <<"<[>">> \o sentence \o <<"<]>">>
          [] form = "double_quoted" -> <<"<[[>">> \o sentence \o <<"<]]>">>
          [] form = "after_action" -> <<"<(>", "HO_BI", "WARA", "mu", "<)>">> \o sentence
          [] form = "output_quoted" ->
                <<"O", "u", "t", "p", "u", "t", ":", " ", "<[>">> \o sentence \o <<"<]>">>

InitPraise ==
    /\ op = "input"
    /\ \E speaker \in {YANA, AYU, LEGACY_B}, form \in PraiseForms,
          recipient \in RecipientParts, praise \in PraiseParts, ending \in PraiseEndings :
          arg = [speaker |-> speaker, form |-> form, recipient |-> recipient,
                 praise |-> praise, response |-> Said(form, recipient, praise, ending)]
    /\ ret = NoneRecord
    /\ InitRAG /\ InitDirectors

\* PraiseChecker().check(speaker, response)
PraiseCheck ==
    /\ op = "input"
    /\ op' = "PraiseChecker.check"
    /\ ret' = PraiseChecker_check(arg.speaker, arg.response)
    /\ UNCHANGED <<arg, ragVars, directorVars>>

NextPraise == PraiseCheck

SpecPraise == InitPraise /\ [][NextPraise]_vars

\* the forms in which the sentence stands inside quote brackets
QuotedForms == {"quoted", "double_quoted", "output_quoted"}

\* C25: for the praise-restricted character the normalization removes only
\* the quote brackets and keeps what they hold: a sentence with a praise
\* word and a recipient token is RETRY also inside quoted dialogue, and a
\* praise word without recipient inside quotes is WARN
C25_QuotedPraiseJudged ==
    (op = "PraiseChecker.check" /\ arg.speaker \in {AYU, LEGACY_B}
       /\ arg.form \in QuotedForms /\ arg.praise # <<>>) =>
        ret.status = IF arg.recipient # <<>> THEN RETRY ELSE WARN

\* outside quote brackets a praise word with a recipient is RETRY and one
\* without is WARN, for the restricted character
C25_UnquotedPraiseJudged ==
    (op = "PraiseChecker.check" /\ arg.speaker \in {AYU, LEGACY_B}
       /\ arg.form \notin QuotedForms /\ arg.praise # <<>>) =>
        ret.status = IF arg.recipient # <<>> THEN RETRY ELSE WARN

\* あゆ said 「あなたはさすがです。」 in quote brackets and the check passed it
C25_Witness ==
    /\ op = "PraiseChecker.check"
    /\ arg.speaker = AYU
    /\ arg.response = <<"<[>", "_a", "na", "ta", "ha", "sa", "su", "ga", "de", "su", "<.>", "<]>">>
    /\ ret.status = PASS /\ ret.passed

\* あゆ said the same sentence without brackets and the check asked for a
\* retry
C25_WitnessPlain ==
    /\ op = "PraiseChecker.check"
    /\ arg.speaker = AYU
    /\ arg.response = <<"_a", "na", "ta", "ha", "sa", "su", "ga", "de", "su", "<.>">>
    /\ ret.status = RETRY /\ ~ret.passed

\* a praise word without recipient, in quote brackets after Output:, passed
C25_WitnessOutput ==
    /\ op = "PraiseChecker.check"
    /\ arg.speaker = AYU
    /\ arg.form = "output_quoted" /\ arg.recipient = <<>> /\ arg.praise # <<>>
    /\ ret.status = PASS

-----------------------------------------------------------------------------
(* director_hybrid.py: _search_rag and get_facts_for_injection search the  *)
(* same RAGManager, whose _seen_facts is one cache for both                *)

\* the tag of the fact was triggered in the last search
ForcedNow(key) ==
    should_force(get_fact_tag([content |-> key[3]]),
                 "blocked_props" \in Elems(current_triggers),
                 "prohibited_terms" \in Elems(current_triggers))

\* the facts the search of the last call would have found for its speaker
\* had that speaker been given nothing before
FreshFacts ==
    RAGManager_search(PersonaConfig, scene_context, blocked_props, recent_topics,
                      [s \in {} |-> {}], dedupe_enabled, arg.speaker,
                      IF op = "evaluate_response" THEN search_text(arg.response)
                      ELSE text_to_check(arg.response_text, arg.topic),
                      MAX_FACT_COUNT, FALSE).result.facts

\* the last call withheld a fact its search would otherwise have found,
\* a fact first surfaced by the operation first_by
WithheldFrom(first_by) ==
    \E key \in shown.all :
        /\ key[1] = arg.speaker
        /\ <<key, first_by>> \in shown.by
        /\ key \notin shown.again
        /\ ~ForcedNow(key)
        /\ \E k \in 1..Len(FreshFacts) :
              FreshFacts[k].source = key[2] /\ FreshFacts[k].content = key[3]

\* C26: evaluate_response and get_facts_for_injection share one per-speaker
\* seen-fact cache: every fact either of them has surfaced since the last
\* reset is in the cache of its speaker, and a fact surfaced before, by
\* either, comes again in a later call of either only when its tag is
\* triggered in that call
C26_SharedSeenCache ==
    (op \in {"evaluate_response", "get_facts_for_injection"}
       /\ options.rag_enabled /\ dedupe_enabled) =>
        /\ \A key \in shown.all : <<key[2], key[3]>> \in SeenBy(seen_facts, key[1])
        /\ \A key \in shown.again : ForcedNow(key)

\* an evaluate_response whose log lacks a fact that get_facts_for_injection
\* surfaced for the same speaker
C26_Witness ==
    /\ op = "evaluate_response" /\ options.rag_enabled /\ options.inject_enabled
    /\ WithheldFrom("get_facts_for_injection")
    /\ \E key \in shown.all :
          /\ key[1] = arg.speaker /\ <<key, "get_facts_for_injection">> \in shown.by
          /\ \A k \in 1..Len(rag_attempts[Len(rag_attempts)].facts) :
                rag_attempts[Len(rag_attempts)].facts[k].text # key[3]

\* a get_facts_for_injection whose search withheld a fact that
\* evaluate_response had logged for the same speaker
C26_WitnessVersa ==
    /\ op = "get_facts_for_injection" /\ options.rag_enabled /\ options.inject_enabled
    /\ WithheldFrom("evaluate_response")

\* a fact surfaced by get_facts_for_injection and logged again by
\* evaluate_response, its tag triggered
C26_WitnessForced ==
    /\ op = "evaluate_response"
    /\ \E key \in shown.again : <<key, "get_facts_for_injection">> \in shown.by

\* a fact surfaced to one speaker and found again for the other
C26_WitnessOtherSpeaker ==
    /\ op \in {"evaluate_response", "get_facts_for_injection"}
    /\ \E key \in shown.all :
          /\ key[1] # arg.speaker
          /\ <<arg.speaker, key[2], key[3]>> \in shown.all
          /\ <<<<arg.speaker, key[2], key[3]>>, op>> \in shown.by
          /\ <<key, op>> \notin shown.by

-----------------------------------------------------------------------------
(* llm/evaluator.py, director_llm.py, director_hybrid.py: how a failed      *)
(* generation is listed among the checks                                   *)

\* the score DirectorLLM got from the evaluator in the last call
LastScore == evaluate_single_turn(arg.reply, 0)

\* C27: when generate raises or returns unparseable output under the
\* default thresholds, the Evaluation of DirectorLLM is WARN with
\* "llm_evaluation" in checks_passed and not in checks_failed; and
\* "llm_evaluation" is in checks_failed only when the status is RETRY or
\* when something other than the generation call raised
C27_FailureCountsAsPassed ==
    /\ (GenerationFailed /\ options.threshold_config = DefaultThresholdConfig) =>
          /\ ~ret.raised
          /\ ret.value.status = WARN
          /\ "llm_evaluation" \in Elems(ret.value.checks_passed)
          /\ "llm_evaluation" \notin Elems(ret.value.checks_failed)
    /\ (op = "evaluate_response" /\ "llm_evaluation" \in Elems(ret.value.checks_failed)) =>
          \/ ret.value.status = RETRY
          \/ ~GenerationFailed /\ IssuesRaise(LastScore.issues)

\* the LLM step of the last DirectorHybrid.evaluate_response ran, and its
\* generate raised
HybridGenerationFailed ==
    /\ op = "evaluate_response"
    /\ Len(llm_calls) = 1 /\ ~arg.llm.raises
    /\ arg.llm.reply.raises

\* the same for the Evaluation of DirectorHybrid when the LLM step runs:
\* the merged status is WARN or RETRY, never PASS
C27_HybridFailureCountsAsPassed ==
    /\ (HybridGenerationFailed /\ options.threshold_config = DefaultThresholdConfig) =>
          /\ ret.status \in {WARN, RETRY}
          /\ "llm_evaluation" \in Elems(ret.checks_passed)
          /\ "llm_evaluation" \notin Elems(ret.checks_failed)
    /\ (op = "evaluate_response" /\ "llm_evaluation" \in Elems(ret.checks_failed)) =>
          \/ ret.status = RETRY
          \/ ~HybridGenerationFailed /\ LLMStrategyRaised

\* generate raised under the default thresholds and the LLM check is listed
\* as passed, on a WARN
C27_Witness ==
    /\ GenerationFailed /\ arg.reply = ReplyRaises
    /\ options.threshold_config = DefaultThresholdConfig
    /\ ret.value.status = WARN
    /\ ret.value.checks_passed = <<"llm_evaluation">>
    /\ ret.value.checks_failed = <<>>

\* the same for a reply in prose
C27_WitnessUnparseable ==
    /\ GenerationFailed /\ arg.reply = ReplyProse
    /\ options.threshold_config = DefaultThresholdConfig
    /\ ret.value.status = WARN
    /\ ret.value.checks_passed = <<"llm_evaluation">>

\* the generation succeeded, building the reason raised, and the LLM check
\* is listed as failed on a WARN
C27_WitnessOtherRaise ==
    /\ op = "evaluate_response" /\ ~GenerationFailed
    /\ IssuesRaise(LastScore.issues)
    /\ ret.value.status = WARN
    /\ ret.value.checks_failed = <<"llm_evaluation">>

\* a genuine low score: the LLM check is listed as failed on a RETRY
C27_WitnessRetry ==
    /\ op = "evaluate_response" /\ ~GenerationFailed
    /\ options.threshold_config = DefaultThresholdConfig
    /\ ret.value.status = RETRY
    /\ ret.value.checks_failed = <<"llm_evaluation">>

\* DirectorHybrid: generate raised after a static RETRY that was not
\* short-circuited; the merged status is RETRY and the LLM check is listed
\* as passed
C27_WitnessHybrid ==
    /\ HybridGenerationFailed
    /\ options.threshold_config = DefaultThresholdConfig
    /\ StaticVerdict.status = RETRY /\ ret.status = RETRY
    /\ "llm_evaluation" \in Elems(ret.checks_passed)

\* DirectorHybrid: generate raised after a static PASS; the merged status
\* is WARN
C27_WitnessHybridWarn ==
    /\ HybridGenerationFailed
    /\ options.threshold_config = DefaultThresholdConfig
    /\ StaticVerdict.status = PASS /\ ret.status = WARN
    /\ "llm_evaluation" \in Elems(ret.checks_passed)

-----------------------------------------------------------------------------
(* director_hybrid.py: the InjectionDecision kept by                       *)
(* get_facts_for_injection against the list it returned                    *)

\* C28: after every get_facts_for_injection the last injection decision has
\* facts_injected equal to the length of the returned list, would_inject
\* true exactly when the list is non-empty, and reasons non-empty exactly
\* when would_inject is true
C28_DecisionMatchesOutcome ==
    op = "get_facts_for_injection" =>
        /\ last_injection_decision # NoneRecord
        /\ last_injection_decision.facts_injected = Len(ret)
        /\ last_injection_decision.would_inject <=> ret # <<>>
        /\ last_injection_decision.reasons # <<>> <=> last_injection_decision.would_inject

\* get_last_injection_decision returns the record of the most recent call
\* only: no other operation writes it, and before the first call there is
\* none
C28_OnlyInjectionWritesDecision ==
    [][op' # "get_facts_for_injection" =>
          last_injection_decision' = last_injection_decision]_vars

\* an injection of three facts on one reason
C28_Witness ==
    /\ op = "get_facts_for_injection"
    /\ last_injection_decision.would_inject
    /\ Len(last_injection_decision.reasons) = 1
    /\ Len(ret) = 3 /\ last_injection_decision.facts_injected = 3

\* a call with both switches on that injects nothing and records no reason
C28_WitnessNone ==
    /\ op = "get_facts_for_injection"
    /\ options.inject_enabled /\ options.rag_enabled
    /\ ret = <<>>
    /\ last_injection_decision = NoInjection

\* an injection of one fact on two reasons
C28_WitnessTwoReasons ==
    /\ op = "get_facts_for_injection"
    /\ Len(last_injection_decision.reasons) = 2
    /\ Len(ret) = 1 /\ last_injection_decision.facts_injected = 1

\* a later operation of the session leaves the record of the last call
C28_WitnessKept ==
    /\ op = "evaluate_response"
    /\ last_injection_decision # NoneRecord
    /\ last_injection_decision.would_inject

-----------------------------------------------------------------------------
(* interfaces.py: the llm_score field of DirectorEvaluation, which no      *)
(* strategy fills in                                                       *)

\* C29: every Evaluation DirectorHybrid.evaluate_response returns has
\* llm_score None, also when the LLM scoring succeeded and its verdict was
\* merged
C29_ScoreNeverAttached ==
    op = "evaluate_response" => ret.llm_score = NoneRecord

\* the same for DirectorLLM.evaluate_response
C29_LLMScoreNeverAttached ==
    op = "evaluate_response" => ~ret.raised /\ ret.value.llm_score = NoneRecord

\* the same for DirectorMinimal.evaluate_response
C29_MinimalScoreNeverAttached ==
    op = "evaluate_response" => ret.llm_score = NoneRecord /\ ret.rag_summary = NoneRecord

\* the LLM scored the response, the verdict was merged into a PASS with a
\* RAG summary, and the Evaluation carries no score
C29_Witness ==
    /\ op = "evaluate_response"
    /\ Len(llm_calls) = 1 /\ ~arg.llm.raises /\ arg.llm.reply = ReplyGood
    /\ ret.status = PASS
    /\ "llm_evaluation" \in Elems(ret.checks_passed)
    /\ ret.rag_summary # NoneRecord
    /\ ret.llm_score = NoneRecord

\* the LLM verdict was a RETRY on a low score, merged, without score
C29_WitnessRetry ==
    /\ op = "evaluate_response"
    /\ Len(llm_calls) = 1 /\ ~arg.llm.raises /\ arg.llm.reply = ReplyLowCharacter
    /\ ret.status = RETRY
    /\ "llm_evaluation" \in Elems(ret.checks_failed)
    /\ ret.llm_score = NoneRecord

\* DirectorLLM scored a good reply and returned PASS without score
C29_WitnessLLM ==
    /\ op = "evaluate_response"
    /\ arg.reply = ReplyGood
    /\ ret.value.status = PASS
    /\ ret.value.llm_score = NoneRecord

-----------------------------------------------------------------------------
(* checks/action_sanitizer.py: the flags of a SanitizerResult and the      *)
(* dialogue after a replaced action                                        *)

\* the text after the leading action of text, the whole text when it has
\* none
AfterAction(text) == From(text, extract_action(text).end)

\* what C30 says of one result of sanitize(text, ...)
FlagsConsistent(text, result) ==
    /\ result.blocked_props # <<>> <=> result.action_replaced
    /\ ~result.action_removed
    /\ ~(result.action_removed /\ result.action_replaced)
    /\ result.action_replaced =>
          /\ extract_action(text).action_type # "None"
          /\ extract_action(result.sanitized_text).action_type = "parentheses"
          /\ AfterAction(result.sanitized_text) = AfterAction(text)

\* C30: in every sanitize result blocked_props is non-empty exactly when
\* action_replaced is true, action_removed is never true, the two flags are
\* never both true, and when an action is replaced the text after the
\* leading action is unchanged
C30_ReplacedNeverRemoved ==
    /\ op \in {"sanitize", "sanitize_again"} =>
          FlagsConsistent(arg.output_text, ret.first)
    /\ op = "sanitize_again" =>
          FlagsConsistent(ret.first.sanitized_text, ret.again)

\* an action between asterisks naming a prop outside the scene was replaced
\* by DEFAULT_FALLBACK in parentheses, the dialogue after it kept with its
\* leading space
C30_Witness ==
    /\ op = "sanitize"
    /\ extract_action(arg.output_text).action_type = "asterisk"
    /\ ret.first.action_replaced /\ ~ret.first.action_removed
    /\ ret.first.blocked_props # <<>>
    /\ extract_action(ret.first.sanitized_text).action = DEFAULT_FALLBACK
    /\ AfterAction(ret.first.sanitized_text) = <<" ", "<[>", "HON", "de", "su", "<]>">>

\* two props blocked in one action in parentheses, replaced by a fallback
\* of FALLBACK_ACTIONS
C30_WitnessMapped ==
    /\ op = "sanitize"
    /\ Len(ret.first.blocked_props) = 2
    /\ ret.first.action_replaced
    /\ extract_action(ret.first.sanitized_text).action # DEFAULT_FALLBACK
    /\ AfterAction(ret.first.sanitized_text) = <<"<[>", "_o", "ha", "yo", "_u", "<]>">>

\* an action without blocked prop: no flag, no blocked prop, the action
\* recorded
C30_WitnessUntouched ==
    /\ op = "sanitize"
    /\ ret.first.original_action # None
    /\ ret.first.blocked_props = <<>>
    /\ ~ret.first.action_replaced /\ ~ret.first.action_removed
    /\ ret.first.sanitized_text = arg.output_text

\* an action replaced with nothing after it
C30_WitnessNoDialogue ==
    /\ op = "sanitize"
    /\ ret.first.action_replaced
    /\ AfterAction(arg.output_text) = <<>>
    /\ AfterAction(ret.first.sanitized_text) = <<>>

====
